---------------------------- MODULE Spec2Model ----------------------------
(***************************************************************************)
(* Thumbnail extractors of ChitUI: the RGB565 codec, the GOO fixed-offset  *)
(* path, the CTB directory path, the offset search and the orientation     *)
(* heuristic, as implemented by the five extractor modules                 *)
(*   plain     src/extract_goo_thumbnails.py                               *)
(*   finetune  src/extractor/goo_extractor.py                              *)
(*   batch     src/extractor/goo_batch.py                                  *)
(*   manager   src/extractor/goo_manager.py        (GOO and CTB classes)   *)
(*   plugin    src/plugins/file_manager_thumbs/file_manager_thumbs.py      *)
(*                                                 (GOO and CTB classes)   *)
(***************************************************************************)
EXTENDS Integers, Sequences, FiniteSets, TLC

VARIABLES
    cls,                \* the extractor class the instance belongs to
    file,               \* the file at self.filepath (stem, length, content)
    offset_adjustment,  \* self.offset_adjustment
    best_endian,        \* self.best_endian ("unset" until find_best_offset sets it)
    pixel,              \* the 16-bit word handed to _decode_rgb565
    img,                \* the image handed to _detect_orientation
    ret,                \* outcome of the last call
    outdir,             \* the PNG files present in the output directory
    listing,            \* the entries of the scanned directory, in listing order
    run,                \* the batch run or scan in progress: position and tallies
    uploadLock,         \* self.uploadLock of the plugin is held
    requests            \* the requests the plugin is handling, by worker

vars == <<cls, file, offset_adjustment, best_endian, pixel, img, ret, outdir,
          listing, run, uploadLock, requests>>

GooClasses == {"plain", "finetune", "batch", "manager", "plugin"}
CtbClasses == {"manager_ctb", "plugin_ctb"}

Pending == [status |-> "pending", op |-> "none"]
\* no batch run or scan started
Idle == [op |-> "none", done |-> FALSE]
NoFile == [stem |-> "", len |-> 0, kind |-> "none"]
NoImage == [size |-> <<0, 0>>, pixels |-> <<>>]

-----------------------------------------------------------------------------
(* Python integer operators used by the codec *)

RECURSIVE BitAnd(_, _)
\* a & b on non-negative integers
BitAnd(a, b) ==
    IF a = 0 \/ b = 0 THEN 0
    ELSE (a % 2) * (b % 2) + 2 * BitAnd(a \div 2, b \div 2)

\* a >> n on non-negative integers
ShiftRight(a, n) == a \div (2 ^ n)

-----------------------------------------------------------------------------
(* RGB565 codec *)

\* the two-statement form: extract the fields, then scale them
decode_rgb565_stepwise(p) ==
    LET red   == BitAnd(ShiftRight(p, 11), 31)
        green == BitAnd(ShiftRight(p, 5), 63)
        blue  == BitAnd(p, 31)
    IN  <<(red * 255) \div 31, (green * 255) \div 63, (blue * 255) \div 31>>

\* a plausible slip: the green field masked and scaled as a 5-bit field
decode_rgb565_green5(p) ==
    <<(BitAnd(ShiftRight(p, 11), 31) * 255) \div 31,
      (BitAnd(ShiftRight(p, 5), 31) * 255) \div 31,
      (BitAnd(p, 31) * 255) \div 31>>

\* the one-expression form: ((pixel >> 11) & 0x1F) * 255 // 31, ...
decode_rgb565(p) ==
    <<(BitAnd(ShiftRight(p, 11), 31) * 255) \div 31,
      (BitAnd(ShiftRight(p, 5), 63) * 255) \div 63,
      (BitAnd(p, 31) * 255) \div 31>>

\* which form each class carries
decode_rgb565_of(c, p) ==
    IF c \in {"plain", "finetune"} THEN decode_rgb565_stepwise(p)
    ELSE decode_rgb565(p)

AllClasses == GooClasses \cup CtbClasses

-----------------------------------------------------------------------------
(* Files and reads *)

Min(a, b) == IF a < b THEN a ELSE b
Max(a, b) == IF a > b THEN a ELSE b

\* The byte at offset i of file f (0 <= i < f.len).  The content of a file is
\* given by its kind: "ramp" files carry a position-dependent byte pattern, so
\* that words read at different offsets differ; "bytes" files carry their
\* content as a sequence; "flat" files repeat one byte.
FileByte(f, i) ==
    IF f.kind = "ramp" THEN (i * 7 + (i \div 256) * 3 + f.seed) % 256
    ELSE IF f.kind = "bytes" THEN f.bytes[i + 1]
    ELSE IF f.kind = "flat" THEN 90 + f.seed
    ELSE IF f.kind = "stripe" THEN (IF i % 4 = 0 THEN 224 ELSE 0)
    ELSE IF f.kind = "solid"
    THEN (IF i < f.start THEN 0
          ELSE IF i < f.split THEN (IF (i - f.start) % 2 = 0 THEN 248 ELSE 0)
          ELSE (IF (i - f.split) % 2 = 0 THEN 7 ELSE 224))
    ELSE 0

\* a plausible slip: a seek that accepts every position
seek_unchecked(pos) == FALSE

\* f.seek(pos) on a file opened 'rb': a negative position raises OSError
SeekRaises(pos) == pos < 0

\* f.read(n) at position pos: the bytes [pos, pos + n) that exist; short at EOF
Read(f, pos, n) == [start |-> pos, n |-> Min(n, Max(0, f.len - pos))]

\* a plausible slip: the two byte orders exchanged
unpack_H_swapped(f, data, i, endian) ==
    LET b0 == FileByte(f, data.start + i)
        b1 == FileByte(f, data.start + i + 1)
    IN  IF endian = ">" THEN b1 * 256 + b0 ELSE b0 * 256 + b1

\* struct.unpack(f'{endian}H', data[i:i+2])[0]
unpack_H(f, data, i, endian) ==
    LET b0 == FileByte(f, data.start + i)
        b1 == FileByte(f, data.start + i + 1)
    IN  IF endian = ">" THEN b0 * 256 + b1 ELSE b1 * 256 + b0

Raise(e) == [ok |-> FALSE, error |-> e]

\* a plausible slip: the four bytes taken most significant first
unpack_I_big(f, pos) ==
    IF Read(f, pos, 4).n < 4 THEN Raise("struct.error")
    ELSE [ok |-> TRUE,
          value |-> ((FileByte(f, pos) * 256 + FileByte(f, pos + 1)) * 256
                     + FileByte(f, pos + 2)) * 256 + FileByte(f, pos + 3)]

\* a plausible slip: a short read taken as the number 0
unpack_I_lenient(f, pos) ==
    IF Read(f, pos, 4).n < 4 THEN [ok |-> TRUE, value |-> 0]
    ELSE [ok |-> TRUE,
          value |-> FileByte(f, pos) + 256 * (FileByte(f, pos + 1)
                     + 256 * (FileByte(f, pos + 2) + 256 * FileByte(f, pos + 3)))]

\* struct.unpack('<I', f.read(4))[0] with the file positioned at pos: fewer
\* than four bytes left raise struct.error
unpack_I(f, pos) ==
    IF Read(f, pos, 4).n < 4 THEN Raise("struct.error")
    ELSE [ok |-> TRUE,
          value |-> FileByte(f, pos) + 256 * (FileByte(f, pos + 1)
                     + 256 * (FileByte(f, pos + 2) + 256 * FileByte(f, pos + 3)))]

-----------------------------------------------------------------------------
(* GOO header layout *)

VERSION_SIZE == 4
SOFTWARE_INFO_SIZE == 32
SOFTWARE_VERSION_SIZE == 24
FILE_TIME_SIZE == 24
PRINTER_NAME_SIZE == 32
PRINTER_TYPE_SIZE == 32
PROFILE_NAME_SIZE == 32
SMALL_PREVIEW_SIZE == <<116, 116>>
BIG_PREVIEW_SIZE == <<290, 290>>

\* the sum of the fixed header fields, as every class adds them up
header_fields ==
    VERSION_SIZE + SOFTWARE_INFO_SIZE + SOFTWARE_VERSION_SIZE + FILE_TIME_SIZE
    + PRINTER_NAME_SIZE + PRINTER_TYPE_SIZE + PROFILE_NAME_SIZE + 2 + 2 + 2

\* a plausible slip: offset_adjustment left out of the sum
calculate_preview_offset_unadjusted(c, adj) == header_fields

\* _calculate_preview_offset: the plain class has no offset_adjustment
calculate_preview_offset(c, adj) ==
    IF c = "plain" THEN header_fields ELSE header_fields + adj

\* the offset_adjustment an instance gets when constructed with defaults
DefaultAdjustment(c) == IF c = "plain" THEN 0 ELSE 8

-----------------------------------------------------------------------------
(* Images.  A decoded image is held by reference to the bytes it was decoded
   from: size, the buffer read from the file, the byte order, the number of
   pixels appended by the decode loop and the PIL rotation applied since.
   getdata gives its pixel list. *)

\* a plausible slip: no length check, the image built from whatever was read
extract_preview_image_padded(data, width, height, endian) ==
    [ok |-> TRUE,
     image |-> [size |-> <<width, height>>, count |-> width * height,
                data |-> data, endian |-> endian, angle |-> 0]]

\* _extract_preview_image(data, width, height, endian)
extract_preview_image(data, width, height, endian) ==
    LET expected_size == width * height * 2
    IN  IF data.n < expected_size THEN Raise("ValueError: Insufficient data")
        ELSE [ok |-> TRUE,
              image |-> [size |-> <<width, height>>,
                         count |-> (expected_size + 1) \div 2,
                         data |-> data, endian |-> endian, angle |-> 0]]

\* pixel i of the list built by the decode loop
DecodedPixel(c, f, im, i) ==
    decode_rgb565_of(c, unpack_H(f, im.data, 2 * i, im.endian))

\* list(img.getdata()): row-major pixels of the image as it is now, i.e. of the
\* decoded list taken through the rotation recorded in im.angle
\* (PIL rotate by a multiple of 90 degrees is an exact transpose).
getdata(c, f, im) ==
    LET w == im.size[1]
        h == im.size[2]
    IN  [k \in 0..(im.count - 1) |->
            LET x == k % w
                y == k \div w
            IN  CASE im.angle = 0   -> DecodedPixel(c, f, im, k)
                  [] im.angle = 90  -> DecodedPixel(c, f, im, x * h + (h - 1 - y))
                  [] im.angle = -90 -> DecodedPixel(c, f, im, (w - 1 - x) * h + y)
                  [] im.angle = 180 -> DecodedPixel(c, f, im, (h - 1 - y) * w + (w - 1 - x))]

-----------------------------------------------------------------------------
(* Orientation heuristic.  An image value is [size |-> <<w, h>>, pixels |-> p]
   with p the pixel list as a function on 0..len-1.  The edge averages are
   Python floats; they are compared here as exact fractions.  When the two
   sides are exactly equal and non-zero the float comparison depends on
   rounding (it comes out either way on real inputs), so the outcome in that
   single case is the argument tie. *)

Lum(p) == p[1] + p[2] + p[3]

\* len(pixels)
PyLen(pixels) == Cardinality(DOMAIN pixels)

\* pixels[i] raises IndexError unless -len <= i < len
IndexRaises(n, i) == i >= n \/ i < -n

\* pixels[i], negative indices counting from the end
PyGet(pixels, n, i) == IF i < 0 THEN pixels[n + i] ELSE pixels[i]

RECURSIVE SumFn(_, _, _)
\* t[lo] + ... + t[hi], summed by halves
SumFn(t, lo, hi) ==
    IF lo > hi THEN 0
    ELSE IF lo = hi THEN t[lo]
    ELSE LET mid == (lo + hi) \div 2
         IN  SumFn(t, lo, mid) + SumFn(t, mid + 1, hi)

\* sum of r+g+b over pixels[idx[0]], ..., pixels[idx[k-1]]
SumLum(pixels, n, idx, k) ==
    SumFn([j \in 0..(k - 1) |-> Lum(PyGet(pixels, n, idx[j]))], 0, k - 1)

\* some index of the comprehension is out of range
AnyIndexRaises(n, idx, k) == \E j \in 0..(k - 1) : IndexRaises(n, idx[j])

\* a plausible slip: >= written for >
ExceedsThreshold_or_equal(left_sum, right_sum, height, top_sum, bottom_sum, width, num, tie) ==
    LET vn == IF height > 0 THEN left_sum + right_sum ELSE 0
        vd == IF height > 0 THEN 2 * height ELSE 1
        hn == IF width > 0 THEN top_sum + bottom_sum ELSE 0
        hd == IF width > 0 THEN 2 * width ELSE 1
    IN  vn * hd * 10 >= num * hn * vd

\* a plausible slip: the two edge contents exchanged in the comparison
ExceedsThreshold_exchanged(left_sum, right_sum, height, top_sum, bottom_sum, width, num, tie) ==
    LET vn == IF height > 0 THEN left_sum + right_sum ELSE 0
        vd == IF height > 0 THEN 2 * height ELSE 1
        hn == IF width > 0 THEN top_sum + bottom_sum ELSE 0
        hd == IF width > 0 THEN 2 * width ELSE 1
    IN  hn * vd * 10 > num * vn * hd

\* vertical_edge_content > horizontal_edge_content * (num/10), the contents
\* being (left + right)/2 over height and (top + bottom)/2 over width
\* (an average is 0 where the code guards a zero divisor)
ExceedsThreshold(left_sum, right_sum, height, top_sum, bottom_sum, width, num, tie) ==
    LET vn == IF height > 0 THEN left_sum + right_sum ELSE 0
        vd == IF height > 0 THEN 2 * height ELSE 1
        hn == IF width > 0 THEN top_sum + bottom_sum ELSE 0
        hd == IF width > 0 THEN 2 * width ELSE 1
    IN  IF vn * hd * 10 = num * hn * vd /\ hn # 0 THEN tie
        ELSE vn * hd * 10 > num * hn * vd

\* the four index comprehensions of the clamping implementations
ClampTop(width, n)       == [x \in 0..(Min(width, n) - 1) |-> x]
ClampBottom(width, height, n) ==
    [x \in 0..(width - 1) |-> Min((height - 1) * width + x, n - 1)]
ClampLeft(width, height, n)  == [y \in 0..(height - 1) |-> Min(y * width, n - 1)]
ClampRight(width, height, n) ==
    [y \in 0..(height - 1) |-> Min(y * width + width - 1, n - 1)]

\* CtbThumbnailExtractor._detect_orientation (manager, plugin): clamped
\* indices, everything inside try/except, threshold 1.1
detect_orientation_ctb(im, tie) ==
    LET width  == im.size[1]
        height == im.size[2]
        pixels == im.pixels
        n      == PyLen(pixels)
        raised == \/ AnyIndexRaises(n, ClampBottom(width, height, n), width)
                  \/ AnyIndexRaises(n, ClampLeft(width, height, n), height)
                  \/ AnyIndexRaises(n, ClampRight(width, height, n), height)
        top    == SumLum(pixels, n, ClampTop(width, n), Min(width, n))
        bottom == SumLum(pixels, n, ClampBottom(width, height, n), width)
        left   == SumLum(pixels, n, ClampLeft(width, height, n), height)
        right  == SumLum(pixels, n, ClampRight(width, height, n), height)
    IN  IF raised THEN [ok |-> TRUE, value |-> 0]      \* except: pass
        ELSE IF ExceedsThreshold(left, right, height, top, bottom, width, 11, tie)
             THEN [ok |-> TRUE, value |-> 270]
             ELSE [ok |-> TRUE, value |-> 0]

\* the loops of the skipping implementation: an index >= len is skipped
SumLumSkip(pixels, n, idx, k) ==
    SumFn([j \in 0..(k - 1) |->
              IF idx[j] < n THEN Lum(PyGet(pixels, n, idx[j])) ELSE 0], 0, k - 1)

SkipRaises(n, idx, k) ==
    \E j \in 0..(k - 1) : idx[j] < n /\ IndexRaises(n, idx[j])

\* GooThumbnailExtractor._detect_orientation (manager, plugin): indices past
\* the end skipped, everything inside try/except Exception, threshold 1.1
detect_orientation_goo(im, tie) ==
    LET width  == im.size[1]
        height == im.size[2]
        pixels == im.pixels
        n      == PyLen(pixels)
        itop    == [x \in 0..(width - 1) |-> x]
        ibottom == [x \in 0..(width - 1) |-> (height - 1) * width + x]
        ileft   == [y \in 0..(height - 1) |-> y * width]
        iright  == [y \in 0..(height - 1) |-> y * width + (width - 1)]
        raised == \/ SkipRaises(n, itop, width)
                  \/ SkipRaises(n, ibottom, width)
                  \/ SkipRaises(n, ileft, height)
                  \/ SkipRaises(n, iright, height)
        top    == SumLumSkip(pixels, n, itop, width)
        bottom == SumLumSkip(pixels, n, ibottom, width)
        left   == SumLumSkip(pixels, n, ileft, height)
        right  == SumLumSkip(pixels, n, iright, height)
    IN  IF raised THEN [ok |-> TRUE, value |-> 0]      \* except Exception: log
        ELSE IF ExceedsThreshold(left, right, height, top, bottom, width, 11, tie)
             THEN [ok |-> TRUE, value |-> 270]
             ELSE [ok |-> TRUE, value |-> 0]

\* GooThumbnailExtractor._detect_orientation (batch): square images return 0
\* at once; otherwise clamped indices and unguarded divisions with no
\* try/except; 270 only for a landscape image, threshold 1.2
detect_orientation_batch(im, tie) ==
    LET width  == im.size[1]
        height == im.size[2]
        pixels == im.pixels
        n      == PyLen(pixels)
        top    == SumLum(pixels, n, ClampTop(width, n), Min(width, n))
        bottom == SumLum(pixels, n, ClampBottom(width, height, n), width)
        left   == SumLum(pixels, n, ClampLeft(width, height, n), height)
        right  == SumLum(pixels, n, ClampRight(width, height, n), height)
    IN  IF width = height THEN [ok |-> TRUE, value |-> 0]
        ELSE IF width = 0 THEN Raise("ZeroDivisionError")        \* top_edge: / width
        ELSE IF AnyIndexRaises(n, ClampBottom(width, height, n), width)
             THEN Raise("IndexError")                            \* bottom_edge
        ELSE IF height = 0 THEN Raise("ZeroDivisionError")       \* left_edge: / height
        ELSE IF AnyIndexRaises(n, ClampLeft(width, height, n), height)
                \/ AnyIndexRaises(n, ClampRight(width, height, n), height)
             THEN Raise("IndexError")
        ELSE IF width > height
                /\ ExceedsThreshold(left, right, height, top, bottom, width, 12, tie)
             THEN [ok |-> TRUE, value |-> 270]
             ELSE [ok |-> TRUE, value |-> 0]

\* the classes that have a _detect_orientation
DetectClasses == {"batch", "manager", "plugin", "manager_ctb", "plugin_ctb"}

detect_orientation(c, im, tie) ==
    IF c = "batch" THEN detect_orientation_batch(im, tie)
    ELSE IF c \in CtbClasses THEN detect_orientation_ctb(im, tie)
    ELSE detect_orientation_goo(im, tie)

-----------------------------------------------------------------------------
(* Offset search of the finetune class *)

Abs(a) == IF a < 0 THEN -a ELSE a

\* abs(p[0]-q[0]) + abs(p[1]-q[1]) + abs(p[2]-q[2])
PixelDiff(p, q) == Abs(p[1] - q[1]) + Abs(p[2] - q[2]) + Abs(p[3] - q[3])

\* the values of range(0, stop, step), as a count
RangeCount(stop, step) == IF stop <= 0 THEN 0 ELSE (stop + step - 1) \div step

\* sum of the left/right differences over y in range(0, height, 5), taken as
\* rows 0, 5, ..., 5*(k-1)
EdgeDiffSum(pixels, width, k) ==
    SumFn([j \in 0..(k - 1) |->
              PixelDiff(pixels[j * 5 * width], pixels[j * 5 * width + width - 1])],
          0, k - 1)

\* the sampled pairs: rows 0, 10, ... (rows of them), columns 0, 10, ... (cols)
PairIndex(width, cols, j) == ((j \div cols) * 10) * width + (j % cols) * 10

\* checks: the sampled pairs whose second pixel exists
CoherenceChecks(n, width, cols, rows) ==
    SumFn([j \in 0..(rows * cols - 1) |->
              IF PairIndex(width, cols, j) + 1 < n THEN 1 ELSE 0], 0, rows * cols - 1)

\* a plausible slip: <= 50 written for < 50
CoherenceScore_or_equal(pixels, n, width, cols, rows) ==
    SumFn([j \in 0..(rows * cols - 1) |->
              LET idx == PairIndex(width, cols, j)
              IN  IF idx + 1 < n /\ PixelDiff(pixels[idx], pixels[idx + 1]) <= 50
                  THEN 1 ELSE 0], 0, rows * cols - 1)

\* coherence_score: those of them that differ by less than 50
CoherenceScore(pixels, n, width, cols, rows) ==
    SumFn([j \in 0..(rows * cols - 1) |->
              LET idx == PairIndex(width, cols, j)
              IN  IF idx + 1 < n /\ PixelDiff(pixels[idx], pixels[idx + 1]) < 50
                  THEN 1 ELSE 0], 0, rows * cols - 1)

\* _calculate_image_quality: coherence * 100 - edge_diff / 10 as the exact
\* fraction num/den (den > 0), with coherence = score/checks (0 when checks = 0)
\* and edge_diff = sum/len(left_edge).  Two images of one size get the same den.
calculate_image_quality(im) ==
    LET width  == im.size[1]
        height == im.size[2]
        pixels == im.pixels
        n      == PyLen(pixels)
        edges  == RangeCount(height, 5)
        esum   == EdgeDiffSum(pixels, width, edges)
        cols   == RangeCount(width - 1, 10)
        rows   == RangeCount(height, 10)
        score  == CoherenceScore(pixels, n, width, cols, rows)
        found  == CoherenceChecks(n, width, cols, rows)
        checks == IF found > 0 THEN found ELSE 1
    IN  [num |-> score * 100 * 10 * edges - esum * checks,
         den |-> checks * 10 * edges]

\* quality > best_quality (best_quality is a quality of an image of the same
\* size, or the integer the search starts from)
QualityGreater(q, best) ==
    IF q.den = best.den THEN q.num > best.num
    ELSE IF best.den = 1
    THEN LET floor == q.num \div q.den
         IN  floor > best.num \/ (floor = best.num /\ q.num % q.den > 0)
    ELSE q.num > best.num \div best.den

\* the image object a handle stands for
AsImage(c, f, im) == [size |-> im.size, pixels |-> getdata(c, f, im)]

\* best_offset, best_quality and the still unbound local best_endian before
\* the loop of find_best_offset
SearchStart(base_offset) ==
    [offset |-> base_offset, quality |-> [num |-> -999999, den |-> 1],
     endian |-> "unbound"]

\* a plausible slip: range(-search_range, search_range, 2), the last
\* candidate left out
CandidateCount_exclusive(search_range) == IF search_range <= 0 THEN 0 ELSE search_range

\* the values of range(-search_range, search_range + 1, 2), as a count
CandidateCount(search_range) == IF search_range < 0 THEN 0 ELSE search_range + 1

\* candidate j of the loop (j = 0, 1, ...) is skipped: the seek raises (caught
\* by the except clause) or fewer than big_size bytes are read
CandidateSkipped(f, base_offset, search_range, j) ==
    LET test_offset == base_offset - search_range + 2 * j
        big_size == BIG_PREVIEW_SIZE[1] * BIG_PREVIEW_SIZE[2] * 2
    IN  SeekRaises(test_offset) \/ Read(f, test_offset, big_size).n < big_size

\* trial t of the loop: candidate t div 2, big-endian for even t and
\* little-endian for odd t, as what it would put into best_* if it won; a
\* skipped candidate leaves the starting values
Trial(c, f, base_offset, search_range, t) ==
    LET test_offset == base_offset - search_range + 2 * (t \div 2)
        endian == IF t % 2 = 0 THEN ">" ELSE "<"
        big_size == BIG_PREVIEW_SIZE[1] * BIG_PREVIEW_SIZE[2] * 2
        test_data == Read(f, test_offset, big_size)
        test_img == extract_preview_image(test_data, BIG_PREVIEW_SIZE[1],
                                          BIG_PREVIEW_SIZE[2], endian).image
    IN  IF CandidateSkipped(f, base_offset, search_range, t \div 2)
        THEN SearchStart(base_offset)
        ELSE [offset |-> test_offset,
              quality |-> calculate_image_quality(AsImage(c, f, test_img)),
              endian |-> endian]

\* a plausible slip: >= written for >, a later trial of equal quality wins
KeepBest_or_equal(best, later) ==
    IF QualityGreater(best.quality, later.quality) THEN best ELSE later

\* if quality > best_quality: the later trial replaces the best so far only
\* when strictly better
KeepBest(best, later) ==
    IF QualityGreater(later.quality, best.quality) THEN later ELSE best

RECURSIVE BestOfTrials(_, _, _, _, _, _)
\* what trials lo..hi leave in best_*; the loop runs them in order, and since
\* KeepBest keeps the earlier of two equal trials the range is folded by halves
BestOfTrials(c, f, base_offset, search_range, lo, hi) ==
    IF lo > hi THEN SearchStart(base_offset)
    ELSE IF lo = hi THEN Trial(c, f, base_offset, search_range, lo)
    ELSE LET mid == (lo + hi) \div 2
         IN  KeepBest(BestOfTrials(c, f, base_offset, search_range, lo, mid),
                      BestOfTrials(c, f, base_offset, search_range, mid + 1, hi))

\* the closing print and return of find_best_offset: the local best_endian is
\* bound only once a candidate was scored; the print reads it, so with no
\* candidate scored the call raises UnboundLocalError
search_result(best) ==
    IF best.endian = "unbound" THEN Raise("UnboundLocalError")
    ELSE [ok |-> TRUE, offset |-> best.offset, endian |-> best.endian,
          quality |-> best.quality]

\* find_best_offset(base_offset, search_range); on return self.best_endian is
\* set to the returned byte order
find_best_offset(c, f, base_offset, search_range) ==
    search_result(KeepBest(SearchStart(base_offset),
                           BestOfTrials(c, f, base_offset, search_range, 0,
                                        2 * CandidateCount(search_range) - 1)))

-----------------------------------------------------------------------------
(* Rotation and saving *)

\* rotate=None of the batch class: detect the orientation
ROTATE_NONE == -1
\* search_range passed by extract_thumbnails to find_best_offset
SEARCH_RANGE == 100

\* img.rotate(angle, expand=True) for angle 90 / -90, img.rotate(180)
pil_rotate(im, angle) ==
    [im EXCEPT !.angle = angle,
               !.size = IF angle \in {90, -90} THEN <<im.size[2], im.size[1]>> ELSE @]

\* a plausible slip: 270 taken as a turn by -90
apply_rotation_clockwise(im, rotation) ==
    CASE rotation = 90  -> pil_rotate(im, -90)
      [] rotation = 180 -> pil_rotate(im, 180)
      [] rotation = 270 -> pil_rotate(im, -90)
      [] OTHER -> im

\* the rotation each class applies for a rotation value: 270 turns by +90,
\* 90 by -90, 180 by 180, anything else leaves the image alone
apply_rotation(im, rotation) ==
    CASE rotation = 90  -> pil_rotate(im, -90)
      [] rotation = 180 -> pil_rotate(im, 180)
      [] rotation = 270 -> pil_rotate(im, 90)
      [] OTHER -> im

\* what a rotation step does with the detected orientation d
rotate_detected(im, d, rotation) ==
    IF ~d.ok THEN d ELSE [ok |-> TRUE, image |-> apply_rotation(im, rotation)]

\* _smart_rotate of the manager and plugin classes: only a detected 270 rotates
smart_rotate_detect(im, d) ==
    rotate_detected(im, d, IF d.ok /\ d.value = 270 THEN 270 ELSE 0)

\* _smart_rotate of the batch class with rotation=None: rotate by what was
\* detected
smart_rotate_batch(im, d) ==
    rotate_detected(im, d, IF d.ok THEN d.value ELSE 0)

\* the rotation step of extract_thumbnails, per class
rotate_step(c, f, im, rotate, tie) ==
    CASE c = "plain" -> [ok |-> TRUE, image |-> im]
      [] c = "finetune" -> [ok |-> TRUE, image |-> apply_rotation(im, rotate)]
      [] c = "batch" /\ rotate # ROTATE_NONE ->
            [ok |-> TRUE, image |-> apply_rotation(im, rotate)]
      [] c = "batch" /\ rotate = ROTATE_NONE ->
            smart_rotate_batch(im, detect_orientation(c, AsImage(c, f, im), tie))
      [] OTHER ->
            smart_rotate_detect(im, detect_orientation(c, AsImage(c, f, im), tie))

\* a plausible slip: both images saved under the small name
SavePair_one_name(dir, stem, small, big) ==
    {e \in dir : e.stem # stem}
        \cup {[stem |-> stem, suffix |-> "_small.png", image |-> big]}

\* small_preview.save(...); big_preview.save(...) under <stem>_small.png and
\* <stem>_big.png: a file of that name is replaced
SavePair(dir, stem, small, big) ==
    {e \in dir : e.stem # stem}
        \cup {[stem |-> stem, suffix |-> "_small.png", image |-> small],
              [stem |-> stem, suffix |-> "_big.png", image |-> big]}

-----------------------------------------------------------------------------
(* GOO extraction *)

NoSearch == [ran |-> FALSE]

Raised(base, e, srch) ==
    [status |-> "raised", error |-> e, base_offset |-> base, images |-> <<>>,
     search |-> srch]

\* the seek, the two reads and the two decodes of extract_thumbnails at
\* actual_offset with byte order endian
read_previews_at(base_offset, f, actual_offset, endian, srch) ==
    LET small_size == SMALL_PREVIEW_SIZE[1] * SMALL_PREVIEW_SIZE[2] * 2
        small_data == Read(f, actual_offset, small_size)
        small == extract_preview_image(small_data, SMALL_PREVIEW_SIZE[1],
                                       SMALL_PREVIEW_SIZE[2], endian)
        big_size == BIG_PREVIEW_SIZE[1] * BIG_PREVIEW_SIZE[2] * 2
        big_data == Read(f, actual_offset + small_data.n, big_size)
        big == extract_preview_image(big_data, BIG_PREVIEW_SIZE[1],
                                     BIG_PREVIEW_SIZE[2], endian)
    IN  IF SeekRaises(actual_offset) THEN Raised(base_offset, "OSError", srch)
        ELSE IF ~small.ok THEN Raised(base_offset, small.error, srch)
        ELSE IF ~big.ok THEN Raised(base_offset, big.error, srch)
        ELSE [status |-> "ok", error |-> "", base_offset |-> base_offset,
              offset |-> actual_offset, endian |-> endian,
              decoded |-> <<small.image, big.image>>,
              images |-> <<small.image, big.image>>, search |-> srch]

\* if auto_adjust: actual_offset = self.find_best_offset(base_offset, 100),
\* the previews then being read there in the byte order the search chose
read_previews_searched(base_offset, f, search) ==
    IF ~search.ok THEN Raised(base_offset, search.error, [ran |-> TRUE] @@ search)
    ELSE read_previews_at(base_offset, f, search.offset, search.endian,
                          [ran |-> TRUE] @@ search)

\* a plausible slip: without auto_adjust the byte order an earlier search left
\* on the instance is used
goo_read_previews_sticky(c, f, adj, auto_adjust) ==
    IF c = "finetune" /\ auto_adjust
    THEN read_previews_searched(calculate_preview_offset(c, adj), f,
             find_best_offset(c, f, calculate_preview_offset(c, adj), SEARCH_RANGE))
    ELSE read_previews_at(calculate_preview_offset(c, adj), f,
                          calculate_preview_offset(c, adj),
                          IF best_endian = "unset" THEN ">" ELSE best_endian, NoSearch)

\* extract_thumbnails of the five GOO classes up to the rotation step: the
\* offset computation, the optional search (finetune class only), the seek and
\* the two reads and decodes.  The result carries what the call decided on the
\* way: the computed and the used offset, the byte order and the two images.
goo_read_previews(c, f, adj, auto_adjust) ==
    IF c = "finetune" /\ auto_adjust
    THEN read_previews_searched(calculate_preview_offset(c, adj), f,
             find_best_offset(c, f, calculate_preview_offset(c, adj), SEARCH_RANGE))
    ELSE read_previews_at(calculate_preview_offset(c, adj), f,
                          calculate_preview_offset(c, adj), ">", NoSearch)

\* an exception out of the rotation step: nothing is returned
raised_from(pre, e) ==
    [pre EXCEPT !.status = "raised", !.error = e, !.images = <<>>]

\* both rotated images, or the exception the rotation step raised
rotated_pair(pre, small_rot, big_rot) ==
    IF ~small_rot.ok THEN raised_from(pre, small_rot.error)
    ELSE IF ~big_rot.ok THEN raised_from(pre, big_rot.error)
    ELSE [pre EXCEPT !.images = <<small_rot.image, big_rot.image>>]

\* the rest of extract_thumbnails: both images through the rotation step
rotate_previews(c, f, pre, rotate, tie) ==
    IF pre.status # "ok" THEN pre
    ELSE rotated_pair(pre, rotate_step(c, f, pre.images[1], rotate, tie),
                      rotate_step(c, f, pre.images[2], rotate, tie))

\* how many candidates of the search are scored (not skipped)
ScoredCandidates(f, base_offset, search_range) ==
    Cardinality({j \in 0..(CandidateCount(search_range) - 1) :
                    ~CandidateSkipped(f, base_offset, search_range, j)})

-----------------------------------------------------------------------------
(* CTB extraction *)

CtbRaised(e) == [status |-> "raised", error |-> e, images |-> <<>>]

\* f.seek(ptr); width, height and data size as three u32; f.read(data_size);
\* self._extract_preview_image(data, width, height)
ctb_read_block(f, ptr) ==
    LET width == unpack_I(f, ptr)
        height == unpack_I(f, ptr + 4)
        data_size == unpack_I(f, ptr + 8)
    IN  IF ~width.ok THEN width
        ELSE IF ~height.ok THEN height
        ELSE IF ~data_size.ok THEN data_size
        ELSE extract_preview_image(Read(f, ptr + 12, data_size.value),
                                   width.value, height.value, "<")

\* extract_thumbnails of the CTB classes up to the rotation step: magic and
\* version are read and dropped, the two pointers are read at 8 and 12, then
\* the small and the large block
ctb_read_previews(f) ==
    LET magic == unpack_I(f, 0)
        version == unpack_I(f, 4)
        preview_small_offset == unpack_I(f, 8)
        preview_large_offset == unpack_I(f, 12)
        small == ctb_read_block(f, preview_small_offset.value)
        large == ctb_read_block(f, preview_large_offset.value)
    IN  IF ~magic.ok THEN CtbRaised(magic.error)
        ELSE IF ~version.ok THEN CtbRaised(version.error)
        ELSE IF ~preview_small_offset.ok THEN CtbRaised(preview_small_offset.error)
        ELSE IF ~preview_large_offset.ok THEN CtbRaised(preview_large_offset.error)
        ELSE IF ~small.ok THEN CtbRaised(small.error)
        ELSE IF ~large.ok THEN CtbRaised(large.error)
        ELSE [status |-> "ok", error |-> "",
              decoded |-> <<small.image, large.image>>,
              images |-> <<small.image, large.image>>]

-----------------------------------------------------------------------------
(* The extractor instances explored: one file, one offset_adjustment *)

\* model bounds
MaxScored == 6      \* the search is explored where it scores at most this many candidates
MaxSeed == 1        \* file contents 0..MaxSeed

SmallBytes == SMALL_PREVIEW_SIZE[1] * SMALL_PREVIEW_SIZE[2] * 2
BigBytes == BIG_PREVIEW_SIZE[1] * BIG_PREVIEW_SIZE[2] * 2

\* offset_adjustment values: the default, none, and two that make the computed
\* offset negative (-98 and -14)
Adjustments == {8, 0, -200, -284}

\* file lengths around every boundary of the two reads, for the offsets 186
\* and 194 and for searched offsets 0, 2, 94 and 96
GooLengths ==
    {0, header_fields + SmallBytes - 1, header_fields + 8 + SmallBytes - 1,
     header_fields + 8 + SmallBytes, 96 + BigBytes, SmallBytes + BigBytes,
     2 + SmallBytes + BigBytes,
     header_fields + SmallBytes + BigBytes - 1, header_fields + SmallBytes + BigBytes,
     header_fields + 8 + SmallBytes + BigBytes - 1,
     header_fields + 8 + SmallBytes + BigBytes,
     header_fields + 8 + SmallBytes + BigBytes + 100}

\* lengths of the files of one repeated byte: for each, some offset_adjustment
\* makes the search score more than one candidate
FlatLengths ==
    {96 + BigBytes, 2 + SmallBytes + BigBytes,
     header_fields + 8 + SmallBytes + BigBytes + 100}

\* lengths of the files of two solid colours: too short for the small preview,
\* and exactly the header, the adjustment and both previews
SolidLengths == {10000, header_fields + 8 + SmallBytes + BigBytes}

\* zero bytes up to offset 194, then the word 0xF800 over the small preview
\* and the word 0x07E0 from there on, both big-endian
SolidFiles ==
    {[stem |-> "model", len |-> n, kind |-> "solid", seed |-> 0,
      start |-> header_fields + 8, split |-> header_fields + 8 + SmallBytes] :
        n \in SolidLengths}

GooFiles ==
    {[stem |-> "model", len |-> n, kind |-> "ramp", seed |-> sd] :
        n \in GooLengths, sd \in 0..MaxSeed}
    \cup {[stem |-> "model", len |-> n, kind |-> "flat", seed |-> 0] : n \in FlatLengths}
    \cup SolidFiles

\* rotate arguments a class accepts (the manager, plugin and plain classes take
\* none: the first two always detect, the last never rotates)
RotateArgs(c) ==
    CASE c = "finetune" -> {0, 90, 180, 270}
      [] c = "batch" -> {ROTATE_NONE, 0, 90, 180, 270}
      [] c \in {"manager", "plugin"} -> {ROTATE_NONE}
      [] OTHER -> {0}

\* CTB files: a 16-byte header (magic, version, the two pointers), the two
\* preview blocks in either order, cut to a length

\* v as four bytes, least significant first
LE32(v) ==
    <<v % 256, (v \div 256) % 256, (v \div 65536) % 256, (v \div 16777216) % 256>>

\* pixel data: content 1 alternates white and black pixels, the others are
\* byte ramps
PayloadByte(seed, j) ==
    IF seed = 1 THEN (IF (j \div 2) % 2 = 0 THEN 255 ELSE 0)
    ELSE (j * 37 + seed * 101 + 11) % 256

CtbBlock(dims, data_size, seed) ==
    LE32(dims[1]) \o LE32(dims[2]) \o LE32(data_size)
        \o [j \in 1..data_size |-> PayloadByte(seed, j - 1)]

\* magic and version words met in the wild, and a header of zeros
CtbHeads == {<<318570521, 2>>, <<318570758, 4>>, <<0, 0>>}
CtbSmallDims == {<<1, 1>>, <<2, 1>>}
CtbLargeDims == {<<1, 2>>, <<3, 1>>}
\* declared data size minus width * height * 2
CtbDeltas == {-1, 0, 2}
\* where the large pointer points: at its block, at the end of the file, past it
CtbPointerModes == {"block", "eof", "past"}
\* bytes cut off the end of the file
CtbCuts == {0, 1, 9}

CtbBytes(head, sdims, sdelta, ldims, ldelta, mode, small_first, seed) ==
    LET sb == CtbBlock(sdims, sdims[1] * sdims[2] * 2 + sdelta, seed)
        lb == CtbBlock(ldims, ldims[1] * ldims[2] * 2 + ldelta, seed)
        full == 16 + Len(sb) + Len(lb)
        sptr == IF small_first THEN 16 ELSE 16 + Len(lb)
        lblock == IF small_first THEN 16 + Len(sb) ELSE 16
        lptr == CASE mode = "block" -> lblock
                  [] mode = "eof" -> full
                  [] OTHER -> full + 4
    IN  LE32(head[1]) \o LE32(head[2]) \o LE32(sptr) \o LE32(lptr)
            \o (IF small_first THEN sb \o lb ELSE lb \o sb)

BytesFile(bytes, cut) ==
    [stem |-> "model", len |-> Len(bytes) - cut, kind |-> "bytes",
     bytes |-> SubSeq(bytes, 1, Len(bytes) - cut)]

CtbFiles ==
    {BytesFile(CtbBytes(head, sdims, sdelta, ldims, ldelta, mode, small_first, seed), cut) :
        head \in CtbHeads, sdims \in CtbSmallDims, sdelta \in CtbDeltas,
        ldims \in CtbLargeDims, ldelta \in CtbDeltas, mode \in CtbPointerModes,
        small_first \in BOOLEAN, seed \in 0..MaxSeed, cut \in CtbCuts}
    \cup {BytesFile(LE32(318570521) \o LE32(2) \o LE32(16) \o LE32(16), cut) :
            cut \in {0, 2, 6, 10, 14, 16}}

Init ==
    /\ cls \in GooClasses \cup CtbClasses
    /\ file \in (IF cls \in GooClasses THEN GooFiles ELSE CtbFiles)
    /\ offset_adjustment \in (IF cls \in GooClasses \ {"plain"} THEN Adjustments ELSE {0})
    /\ best_endian = "unset"
    /\ pixel = 0
    /\ img = NoImage
    /\ ret = Pending
    /\ outdir = {}
    /\ listing = <<>>
    /\ run = Idle
    /\ uploadLock = FALSE
    /\ requests = <<>>

\* the end of extract_thumbnails: with output_dir both PNGs are written into
\* the directory (which exists: the plain, finetune and batch classes create it
\* when missing, the manager and the plugin are handed an existing one);
\* self.best_endian is what the search left
GooFinish(auto_adjust, rotate, output_dir, r) ==
    /\ ret' = [op |-> "extract_thumbnails", auto_adjust |-> auto_adjust,
               rotate |-> rotate, output_dir |-> output_dir] @@ r
    /\ best_endian' = IF r.search.ran /\ r.search.ok
                      THEN r.search.endian ELSE best_endian
    /\ outdir' = IF r.status = "ok" /\ output_dir
                 THEN SavePair(outdir, file.stem, r.images[1], r.images[2])
                 ELSE outdir

GooRotateAndFinish(auto_adjust, pre) ==
    \E rotate \in RotateArgs(cls), tie \in BOOLEAN, output_dir \in BOOLEAN :
        GooFinish(auto_adjust, rotate, output_dir,
                  rotate_previews(cls, file, pre, rotate, tie))

\* extractor.extract_thumbnails(output_dir, auto_adjust=..., rotate=...), the
\* one call every caller makes on a freshly constructed extractor
ExtractThumbnailsGoo(auto_adjust) ==
    /\ cls \in GooClasses
    /\ ret.status = "pending"
    /\ auto_adjust => cls = "finetune"
    /\ auto_adjust =>
          ScoredCandidates(file, calculate_preview_offset(cls, offset_adjustment),
                           SEARCH_RANGE) <= MaxScored
    /\ GooRotateAndFinish(auto_adjust,
            goo_read_previews(cls, file, offset_adjustment, auto_adjust))
    /\ UNCHANGED <<cls, file, offset_adjustment, pixel, img, listing, run,
                   uploadLock, requests>>

CtbFinish(output_dir, r) ==
    /\ ret' = [op |-> "extract_thumbnails", output_dir |-> output_dir] @@ r
    /\ outdir' = IF r.status = "ok" /\ output_dir
                 THEN SavePair(outdir, file.stem, r.images[1], r.images[2])
                 ELSE outdir

CtbRotateAndFinish(pre) ==
    \E tie \in BOOLEAN, output_dir \in BOOLEAN :
        CtbFinish(output_dir, rotate_previews(cls, file, pre, ROTATE_NONE, tie))

\* extractor.extract_thumbnails(output_dir) of the CTB classes, the one call
\* every caller makes on a freshly constructed extractor
ExtractThumbnailsCtb ==
    /\ cls \in CtbClasses
    /\ ret.status = "pending"
    /\ CtbRotateAndFinish(ctb_read_previews(file))
    /\ UNCHANGED <<cls, file, offset_adjustment, best_endian, pixel, img, listing, run,
                   uploadLock, requests>>

Next ==
    \/ \E auto_adjust \in BOOLEAN : ExtractThumbnailsGoo(auto_adjust)
    \/ ExtractThumbnailsCtb

Spec == Init /\ [][Next]_vars

-----------------------------------------------------------------------------
(* Specification of the codec alone: every 16-bit word, every class *)

InitCodec ==
    /\ pixel \in 0..65535
    /\ cls = "plain"
    /\ file = NoFile
    /\ offset_adjustment = 0
    /\ best_endian = "unset"
    /\ img = NoImage
    /\ ret = Pending
    /\ outdir = {}
    /\ listing = <<>>
    /\ run = Idle
    /\ uploadLock = FALSE
    /\ requests = <<>>

DecodePixel(c) ==
    /\ ret.status = "pending"
    /\ cls' = c
    /\ ret' = [status |-> "ok", op |-> "_decode_rgb565", rgb |-> decode_rgb565_of(c, pixel)]
    /\ UNCHANGED <<file, offset_adjustment, best_endian, pixel, img, outdir, listing, run,
                   uploadLock, requests>>

NextCodec == \E c \in AllClasses : DecodePixel(c)

SpecCodec == InitCodec /\ [][NextCodec]_vars

-----------------------------------------------------------------------------
(* Specification of the orientation heuristic alone: every small image over a
   three-colour palette, zero-sized ones included, every class that has it *)

\* model bounds
MaxDim == 4         \* widths and heights 0..MaxDim
MaxPixels == 6      \* images of at most this many pixels

Palette == {<<0, 0, 0>>, <<255, 255, 255>>, <<8, 16, 8>>}

\* the square images of side 3 in black and white: the smallest squares whose
\* column edges and row edges can differ
SquareImages ==
    {[size |-> <<3, 3>>, pixels |-> p] :
        p \in [0..8 -> {<<0, 0, 0>>, <<255, 255, 255>>}]}

\* an image as PIL holds it: exactly width * height pixels
OrientImages ==
    UNION {{[size |-> <<w, h>>, pixels |-> p] : p \in [0..(w * h - 1) -> Palette]} :
              <<w, h>> \in {d \in (0..MaxDim) \X (0..MaxDim) : d[1] * d[2] <= MaxPixels}}
    \cup SquareImages

InitOrient ==
    /\ img \in OrientImages
    /\ cls = "batch"
    /\ file = NoFile
    /\ offset_adjustment = 0
    /\ best_endian = "unset"
    /\ pixel = 0
    /\ ret = Pending
    /\ outdir = {}
    /\ listing = <<>>
    /\ run = Idle
    /\ uploadLock = FALSE
    /\ requests = <<>>

\* what the caller of _detect_orientation sees: the value returned or the
\* exception that escapes
orientation_outcome(d) ==
    IF d.ok THEN [status |-> "ok", op |-> "_detect_orientation", value |-> d.value]
    ELSE [status |-> "raised", op |-> "_detect_orientation", error |-> d.error]

DetectOrientation(c) ==
    /\ ret.status = "pending"
    /\ cls' = c
    /\ \E tie \in BOOLEAN :
          ret' = [tie |-> tie] @@ orientation_outcome(detect_orientation(c, img, tie))
    /\ UNCHANGED <<file, offset_adjustment, best_endian, pixel, img, outdir, listing, run,
                   uploadLock, requests>>

NextOrient == \E c \in DetectClasses : DetectOrientation(c)

SpecOrient == InitOrient /\ [][NextOrient]_vars

-----------------------------------------------------------------------------
\* C1: for every 16-bit word the decoded triple is
\* ((w div 2^11) mod 32) * 255 div 31, ((w div 2^5) mod 64) * 255 div 63,
\* (w mod 32) * 255 div 31, in every class; 0x0000, 0xFFFF and 0xF800 decode to
\* black, white and pure red, and every channel lies in 0..255.
C1_DecodeFormula ==
    (ret.status = "ok" /\ ret.op = "_decode_rgb565") =>
        /\ ret.rgb = << (((pixel \div 2048) % 32) * 255) \div 31,
                        (((pixel \div 32) % 64) * 255) \div 63,
                        ((pixel % 32) * 255) \div 31 >>
        /\ \A i \in 1..3 : ret.rgb[i] \in 0..255
        /\ (pixel = 0) => ret.rgb = <<0, 0, 0>>
        /\ (pixel = 65535) => ret.rgb = <<255, 255, 255>>
        /\ (pixel = 63488) => ret.rgb = <<255, 0, 0>>

C1_Witness ==
    /\ ret.status = "ok" /\ ret.op = "_decode_rgb565"
    /\ pixel = 63488 /\ cls = "plugin_ctb" /\ ret.rgb = <<255, 0, 0>>

-----------------------------------------------------------------------------
(* Several extract_thumbnails calls on one instance of the finetune class.
   The instance keeps filepath, offset_adjustment and, once a search returned,
   best_endian; every call opens the file again. *)

\* calls explored per instance
MaxCalls == 2
\* candidates one search may score here: all of base, base+2, ..., base+100
MaxScoredCalls == 51

\* a little-endian image of columns alternating between two near colours (the
\* same bytes read big-endian alternate between far colours), and a byte ramp
CallFiles ==
    {[stem |-> "model", len |-> SmallBytes + BigBytes, kind |-> "stripe", seed |-> 0],
     [stem |-> "model", len |-> SmallBytes + BigBytes, kind |-> "ramp", seed |-> 0]}

\* --offset values: the computed offset is 0 or lies before the file
CallAdjustments == {-header_fields, -284}

InitCalls ==
    /\ cls = "finetune"
    /\ file \in CallFiles
    /\ offset_adjustment \in CallAdjustments
    /\ best_endian = "unset"
    /\ pixel = 0
    /\ img = NoImage
    /\ ret = Pending
    /\ outdir = {}
    /\ listing = <<>>
    /\ run = Idle
    /\ uploadLock = FALSE
    /\ requests = <<>>

\* calls made on the instance so far
CallsMade == IF ret.status = "pending" THEN 0 ELSE ret.calls

CallFinish(auto_adjust, rotate, output_dir, r) ==
    /\ ret' = [op |-> "extract_thumbnails", auto_adjust |-> auto_adjust,
               rotate |-> rotate, output_dir |-> output_dir,
               calls |-> CallsMade + 1] @@ r
    /\ best_endian' = IF r.search.ran /\ r.search.ok
                      THEN r.search.endian ELSE best_endian
    /\ outdir' = IF r.status = "ok" /\ output_dir
                 THEN SavePair(outdir, file.stem, r.images[1], r.images[2])
                 ELSE outdir

CallRotateAndFinish(auto_adjust, pre) ==
    \E rotate \in RotateArgs(cls), output_dir \in BOOLEAN :
        CallFinish(auto_adjust, rotate, output_dir,
                   rotate_previews(cls, file, pre, rotate, FALSE))

\* extractor.extract_thumbnails(output_dir, auto_adjust=..., rotate=...) on an
\* instance that may have been used before.  Explored: up to MaxCalls calls,
\* the searching call, if any, being the first.
ExtractThumbnailsAgain(auto_adjust) ==
    /\ CallsMade < MaxCalls
    /\ auto_adjust => ret.status = "pending"
    /\ auto_adjust =>
          ScoredCandidates(file, calculate_preview_offset(cls, offset_adjustment),
                           SEARCH_RANGE) <= MaxScoredCalls
    /\ CallRotateAndFinish(auto_adjust,
            goo_read_previews(cls, file, offset_adjustment, auto_adjust))
    /\ UNCHANGED <<cls, file, offset_adjustment, pixel, img, listing, run,
                   uploadLock, requests>>

NextCalls == \E auto_adjust \in BOOLEAN : ExtractThumbnailsAgain(auto_adjust)

SpecCalls == InitCalls /\ [][NextCalls]_vars

-----------------------------------------------------------------------------
(* Directory runs: batch_process of goo_batch.py over a directory, and the
   plugin's thumbnail scan over its upload folder together with the route that
   serves the cached thumbnails.  A directory entry is
   [stem, ext, content]; the PNGs next to the .goo files (batch) or in
   THUMBNAIL_CACHE_DIR (plugin) are outdir. *)

\* entries per directory
MaxFiles == 3

\* names by position, in sorted order
EntryStems == <<"a", "b", "c", "d">>

GooGood == [stem |-> "", len |-> header_fields + 8 + SmallBytes + BigBytes,
            kind |-> "ramp", seed |-> 0]
\* the big preview is cut short
GooShort == [stem |-> "", len |-> header_fields + 8 + SmallBytes + 100,
             kind |-> "ramp", seed |-> 0]
CtbGood == BytesFile(CtbBytes(<<318570521, 2>>, <<1, 1>>, 0, <<3, 1>>, 0,
                              "block", TRUE, 1), 0)
EntryKinds ==
    {[ext |-> ".goo", content |-> GooGood], [ext |-> ".goo", content |-> GooShort],
     [ext |-> ".ctb", content |-> CtbGood],
     [ext |-> ".txt", content |-> NoFile]}

Entry(i, k) ==
    [stem |-> EntryStems[i], ext |-> k.ext,
     content |-> [k.content EXCEPT !.stem = EntryStems[i]]]

Listings ==
    UNION {{[i \in 1..n |-> Entry(i, ks[i])] : ks \in [1..n -> EntryKinds]} :
              n \in 0..MaxFiles}

\* PNGs left by an earlier run: none, both for "b", or only the small one
OlderPngs ==
    {{},
     {[stem |-> "b", suffix |-> "_small.png", image |-> NoImage],
      [stem |-> "b", suffix |-> "_big.png", image |-> NoImage]},
     {[stem |-> "b", suffix |-> "_small.png", image |-> NoImage]}}

InitFolder ==
    /\ cls \in {"batch", "plugin"}
    /\ file = NoFile
    /\ offset_adjustment = DefaultAdjustment(cls)
    /\ best_endian = "unset"
    /\ pixel = 0
    /\ img = NoImage
    /\ ret = Pending
    /\ outdir \in OlderPngs
    /\ listing \in Listings
    /\ run = Idle
    /\ uploadLock = FALSE
    /\ requests = <<>>

PngExists(dir, stem, suffix) == \E e \in dir : e.stem = stem /\ e.suffix = suffix

IsGoo(e) == e.ext = ".goo"

\* sorted(dir_path.glob("*.goo"))
find_goo_files(entries) == SelectSeq(entries, IsGoo)

\* a plausible slip: or written for and
check_if_processed_either(dir, goo_file) ==
    PngExists(dir, goo_file.stem, "_small.png") \/ PngExists(dir, goo_file.stem, "_big.png")

\* small_path.exists() and big_path.exists()
check_if_processed(dir, goo_file) ==
    PngExists(dir, goo_file.stem, "_small.png") /\ PngExists(dir, goo_file.stem, "_big.png")

\* batch_process up to the loop: the .goo files are listed once; with none the
\* function returns at once
batch_started(goo_files, force) ==
    [op |-> "batch_process", force |-> force, files |-> goo_files, i |-> 1,
     processed |-> 0, skipped |-> 0, failed |-> 0,
     visited |-> <<>>, outcomes |-> <<>>, done |-> (goo_files = <<>>)]

\* how the outcomes of the run before are kept for comparison: again says
\* that this is the second run over the directory
batch_history ==
    IF run.op = "none" THEN [again |-> FALSE, earlier |-> <<>>]
    ELSE [again |-> TRUE, earlier |-> run.outcomes]

\* batch_process(directory, force), run once and, when over, once more
BatchProcess(force) ==
    /\ cls = "batch"
    /\ run.op = "none" \/ (run.op = "batch_process" /\ run.done /\ ~run.again)
    /\ run' = batch_history @@ batch_started(find_goo_files(listing), force)
    /\ UNCHANGED <<cls, file, offset_adjustment, best_endian, pixel, img, ret,
                   outdir, listing,
                   uploadLock, requests>>

\* GooThumbnailExtractor(str(goo_file)).extract_thumbnails(output_dir=...) of
\* the batch module: default offset_adjustment, rotate=None
batch_extract(goo_file, tie) ==
    rotate_previews("batch", goo_file.content,
        goo_read_previews("batch", goo_file.content, DefaultAdjustment("batch"), FALSE),
        ROTATE_NONE, tie)

\* one more file tallied; after the last one the summary is printed
batch_tally(goo_file, outcome) ==
    run' = [run EXCEPT ![outcome] = @ + 1,
                       !.i = @ + 1,
                       !.visited = Append(@, goo_file.stem),
                       !.outcomes = Append(@, outcome),
                       !.done = (run.i = Len(run.files))]

\* a plausible slip: no try/except around the extraction, an exception leaves
\* batch_process
batch_iteration_uncaught(goo_file, r) ==
    IF ~run.force /\ check_if_processed(outdir, goo_file)
    THEN batch_tally(goo_file, "skipped") /\ UNCHANGED outdir
    ELSE IF r.status = "ok"
    THEN /\ outdir' = SavePair(outdir, goo_file.stem, r.images[1], r.images[2])
         /\ batch_tally(goo_file, "processed")
    ELSE /\ run' = [run EXCEPT !.op = "raised"]
         /\ UNCHANGED outdir

\* the body of the loop of batch_process for goo_file, r being what the
\* extraction gives
batch_iteration(goo_file, r) ==
    IF ~run.force /\ check_if_processed(outdir, goo_file)
    THEN batch_tally(goo_file, "skipped") /\ UNCHANGED outdir
    ELSE IF r.status = "ok"
    THEN /\ outdir' = SavePair(outdir, goo_file.stem, r.images[1], r.images[2])
         /\ batch_tally(goo_file, "processed")
    ELSE /\ batch_tally(goo_file, "failed")
         /\ UNCHANGED outdir

BatchIteration ==
    /\ cls = "batch"
    /\ run.op = "batch_process"
    /\ ~run.done
    /\ \E tie \in BOOLEAN :
          batch_iteration(run.files[run.i], batch_extract(run.files[run.i], tie))
    /\ UNCHANGED <<cls, file, offset_adjustment, best_endian, pixel, img, ret, listing,
                   uploadLock, requests>>

\* _scan_and_extract_thumbnails up to the loop: os.listdir(self.UPLOAD_FOLDER)
scan_started(names) ==
    [op |-> "scan", files |-> names, i |-> 1, results |-> {},
     visited |-> <<>>, done |-> (names = <<>>)]

ScanAndExtractThumbnails ==
    /\ cls = "plugin"
    /\ run.op = "none"
    /\ run' = scan_started(listing)
    /\ UNCHANGED <<cls, file, offset_adjustment, best_endian, pixel, img, ret,
                   outdir, listing,
                   uploadLock, requests>>

\* _extract_thumbnail_to_cache: the extractor class is picked by the suffix
extract_thumbnail_to_cache(entry, tie) ==
    IF entry.ext = ".goo"
    THEN rotate_previews("plugin", entry.content,
             goo_read_previews("plugin", entry.content, DefaultAdjustment("plugin"), FALSE),
             ROTATE_NONE, tie)
    ELSE rotate_previews("plugin_ctb", entry.content, ctb_read_previews(entry.content),
             ROTATE_NONE, tie)

\* results[filename] = success
scan_result(entry, success) ==
    {x \in run.results : ~(x.stem = entry.stem /\ x.ext = entry.ext)}
        \cup {[stem |-> entry.stem, ext |-> entry.ext, success |-> success]}

scan_advance(entry, results) ==
    run' = [run EXCEPT !.i = @ + 1,
                       !.results = results,
                       !.visited = Append(@, entry.stem),
                       !.done = (run.i = Len(run.files))]

\* the body of the loop of _scan_and_extract_thumbnails for one name, r being
\* what the extraction gives; an exception in the extraction is caught in
\* _extract_thumbnail_to_cache and becomes success = False
scan_iteration(entry, r) ==
    IF entry.ext \notin {".goo", ".ctb"}
    THEN scan_advance(entry, run.results) /\ UNCHANGED outdir
    ELSE IF PngExists(outdir, entry.stem, "_big.png")
    THEN scan_advance(entry, scan_result(entry, TRUE)) /\ UNCHANGED outdir
    ELSE IF r.status = "ok"
    THEN /\ outdir' = SavePair(outdir, entry.stem, r.images[1], r.images[2])
         /\ scan_advance(entry, scan_result(entry, TRUE))
    ELSE /\ scan_advance(entry, scan_result(entry, FALSE))
         /\ UNCHANGED outdir

ScanIteration ==
    /\ cls = "plugin"
    /\ run.op = "scan"
    /\ ~run.done
    /\ \E tie \in BOOLEAN :
          scan_iteration(run.files[run.i],
                         extract_thumbnail_to_cache(run.files[run.i], tie))
    /\ UNCHANGED <<cls, file, offset_adjustment, best_endian, pixel, img, ret, listing,
                   uploadLock, requests>>

\* requested names
ServedNames == {[stem |-> "a", suffix |-> "_big.png"]}

CachedFile(dir, filename) ==
    CHOOSE e \in dir : e.stem = filename.stem /\ e.suffix = filename.suffix

\* a plausible slip: a miss extracts the thumbnail of the first listed entry of
\* that name and serves it
serve_thumbnail_generating(dir, entries, filename) ==
    IF PngExists(dir, filename.stem, filename.suffix)
    THEN [status |-> 200, body |-> CachedFile(dir, filename).image, cache |-> dir]
    ELSE IF \E i \in DOMAIN entries : entries[i].stem = filename.stem /\ entries[i].ext = ".goo"
                /\ extract_thumbnail_to_cache(entries[i], FALSE).status = "ok"
    THEN [status |-> 200, body |-> NoImage,
          cache |-> SavePair(dir, filename.stem, NoImage, NoImage)]
    ELSE [status |-> 404, body |-> "Thumbnail not found", cache |-> dir]

\* serve_thumbnail(filename): the response, and the cache directory afterwards
serve_thumbnail(dir, entries, filename) ==
    IF PngExists(dir, filename.stem, filename.suffix)
    THEN [status |-> 200, body |-> CachedFile(dir, filename).image, cache |-> dir]
    ELSE [status |-> 404, body |-> "Thumbnail not found", cache |-> dir]

serve_response(filename, r) ==
    /\ ret' = [op |-> "serve_thumbnail", filename |-> filename,
               status |-> r.status, body |-> r.body]
    /\ outdir' = r.cache

\* GET /thumbnails/<filename>; requests are served while a scan is running
ServeThumbnail(filename) ==
    /\ cls = "plugin"
    /\ serve_response(filename, serve_thumbnail(outdir, listing, filename))
    /\ UNCHANGED <<cls, file, offset_adjustment, best_endian, pixel, img, listing, run,
                   uploadLock, requests>>

NextFolder ==
    \/ \E force \in BOOLEAN : BatchProcess(force)
    \/ BatchIteration
    \/ ScanAndExtractThumbnails
    \/ ScanIteration
    \/ \E filename \in ServedNames : ServeThumbnail(filename)

SpecFolder == InitFolder /\ [][NextFolder]_vars

-----------------------------------------------------------------------------
(* _calculate_image_quality of the finetune class as a function of the image:
   images of several sizes around the sampling steps (every 5th and 10th row,
   every 10th column), painted by a pattern, and the zero-sized ones *)

QualityWidths == {1, 2, 3, 11, 12, 22}
QualityHeights == {1, 2, 6, 11}
QualityPatterns == {"black", "white", "grey", "columns", "near", "close", "blocks",
                    "rows", "dot", "edge"}

\* the colour of pixel (x, y) of a pattern on an image w wide
PatternPixel(pt, w, x, y) ==
    CASE pt = "black" -> <<0, 0, 0>>
      [] pt = "white" -> <<255, 255, 255>>
      [] pt = "grey" -> <<8, 16, 8>>
      [] pt = "columns" -> IF x % 2 = 0 THEN <<0, 0, 0>> ELSE <<255, 255, 255>>
      [] pt = "near" -> IF x % 2 = 0 THEN <<0, 0, 0>> ELSE <<20, 20, 10>>
      [] pt = "close" -> IF x % 2 = 0 THEN <<0, 0, 0>> ELSE <<8, 16, 8>>
      [] pt = "blocks" -> IF (x \div 2) % 2 = 0 THEN <<0, 0, 0>> ELSE <<255, 255, 255>>
      [] pt = "rows" -> IF y % 10 = 0 THEN <<0, 0, 0>>
                        ELSE IF x % 2 = 0 THEN <<255, 255, 255>> ELSE <<8, 16, 8>>
      [] pt = "dot" -> IF (x = 1 /\ y = 0) \/ (x = w - 1 /\ y = 5)
                       THEN <<255, 255, 255>> ELSE <<0, 0, 0>>
      [] OTHER -> IF x = w - 1 /\ y % 5 = 0 THEN <<40, 0, 0>> ELSE <<0, 0, 0>>

QualityImages ==
    {[size |-> <<w, h>>,
      pixels |-> [k \in 0..(w * h - 1) |-> PatternPixel(pt, w, k % w, k \div w)]] :
        w \in QualityWidths, h \in QualityHeights, pt \in QualityPatterns}
    \cup {[size |-> d, pixels |-> <<>>] : d \in {<<0, 0>>, <<0, 2>>, <<2, 0>>}}

InitQuality ==
    /\ img \in QualityImages
    /\ cls = "finetune"
    /\ file = NoFile
    /\ offset_adjustment = 0
    /\ best_endian = "unset"
    /\ pixel = 0
    /\ ret = Pending
    /\ outdir = {}
    /\ listing = <<>>
    /\ run = Idle
    /\ uploadLock = FALSE
    /\ requests = <<>>

\* what the caller of _calculate_image_quality sees: with no row the division
\* by len(left_edge) raises, with rows but no column pixels[0] does; otherwise
\* the score
quality_outcome(im) ==
    IF im.size[2] = 0
    THEN [status |-> "raised", op |-> "_calculate_image_quality",
          error |-> "ZeroDivisionError"]
    ELSE IF im.size[1] = 0
    THEN [status |-> "raised", op |-> "_calculate_image_quality", error |-> "IndexError"]
    ELSE [status |-> "ok", op |-> "_calculate_image_quality",
          quality |-> calculate_image_quality(im)]

CalculateImageQuality ==
    /\ ret.status = "pending"
    /\ ret' = quality_outcome(img)
    /\ UNCHANGED <<cls, file, offset_adjustment, best_endian, pixel, img, outdir,
                   listing, run,
                   uploadLock, requests>>

NextQuality == CalculateImageQuality

SpecQuality == InitQuality /\ [][NextQuality]_vars

-----------------------------------------------------------------------------
(* What the claims below read from a file, written out byte by byte *)

\* the 16-bit word b0 * 256 + b1 decoded field by field
WordDecode(b0, b1) ==
    << ((((b0 * 256 + b1) \div 2048) % 32) * 255) \div 31,
       ((((b0 * 256 + b1) \div 32) % 64) * 255) \div 63,
       (((b0 * 256 + b1) % 32) * 255) \div 31 >>

\* the little-endian 32-bit number at offset p of the file
FileU32(p) ==
    FileByte(file, p) + 256 * FileByte(file, p + 1)
        + 65536 * FileByte(file, p + 2) + 16777216 * FileByte(file, p + 3)

\* a preview block header lies at p, with at least width * height * 2 of the
\* declared bytes present
BlockReadable(p) ==
    /\ p + 12 <= file.len
    /\ Min(FileU32(p + 8), file.len - (p + 12)) >= FileU32(p) * FileU32(p + 4) * 2

\* the pixel indices the fixed-size previews are compared at
ProbePixels(width, height) ==
    {0, 1, width - 1, width, (width * height) \div 2, width * height - 1}

GooTotalBytes == SmallBytes + BigBytes

-----------------------------------------------------------------------------
\* image im is the width x height decode of the bytes from start on
C2_RangeDecoded(im, start, width, height) ==
    /\ im.size = <<width, height>>
    /\ im.count = width * height
    /\ im.data = [start |-> start, n |-> width * height * 2]
    /\ \A k \in ProbePixels(width, height) :
          /\ DecodedPixel(cls, file, im, k)
                = WordDecode(FileByte(file, start + 2 * k), FileByte(file, start + 2 * k + 1))
          /\ getdata(cls, file, im)[k] = DecodedPixel(cls, file, im, k)

\* C2: a GOO extraction without auto-adjust that succeeds decoded the 116x116
\* preview from the 26912 bytes at the computed offset and the 290x290 preview
\* from the 168200 bytes right after them, pixel k of each being the decode of
\* the big-endian word at bytes 2k, 2k+1 of its range.
C2_FixedOffsetDecode ==
    (cls \in GooClasses /\ ret.op = "extract_thumbnails" /\ ret.status = "ok"
        /\ ~ret.auto_adjust) =>
        /\ ret.base_offset = calculate_preview_offset(cls, offset_adjustment)
        /\ C2_RangeDecoded(ret.decoded[1], ret.base_offset, 116, 116)
        /\ C2_RangeDecoded(ret.decoded[2], ret.base_offset + 26912, 290, 290)

C2_Witness ==
    /\ cls = "plugin" /\ ret.op = "extract_thumbnails" /\ ret.status = "ok"
    /\ ~ret.auto_adjust /\ offset_adjustment = 8
    /\ ret.decoded[1].data.start = 194
    /\ ret.decoded[2].data.start = 194 + 26912
    /\ file.len = 194 + 26912 + 168200

\* C3: a GOO extraction on a file shorter than base offset + 26912 fails with
\* the insufficient-data error; and whenever either preview has too few bytes
\* the call raises, returns no image and writes neither PNG.
C3_ShortFileFails ==
    (cls \in GooClasses /\ ret.op = "extract_thumbnails") =>
        /\ (0 <= ret.base_offset /\ file.len < ret.base_offset + 26912) =>
              /\ ret.status = "raised"
              /\ ret.error = "ValueError: Insufficient data"
              /\ ret.images = <<>>
        /\ (~ret.search.ran /\ file.len < ret.base_offset + GooTotalBytes) =>
              (ret.status = "raised" /\ ret.images = <<>> /\ outdir = {})

C3_Witness ==
    /\ cls = "finetune" /\ ret.op = "extract_thumbnails" /\ ret.auto_adjust
    /\ offset_adjustment = 8 /\ file.len = 194 + 26912 - 1
    /\ ret.status = "raised" /\ ret.error = "UnboundLocalError"
    /\ ret.images = <<>> /\ outdir = {}

\* image im is complete and lies within the bytes read
C4_Full(im) ==
    /\ im.count = im.size[1] * im.size[2]
    /\ 2 * im.count <= im.data.n
    /\ im.data.start >= 0
    /\ im.data.start + im.data.n <= file.len

\* C4: every image of a successful extraction, as decoded and as returned
\* after rotation, has width * height pixels, each decoded from two bytes that
\* were read from the file.
C4_ImagesFull ==
    (ret.op = "extract_thumbnails" /\ ret.status = "ok") =>
        \A j \in 1..2 : C4_Full(ret.decoded[j]) /\ C4_Full(ret.images[j])

C4_Witness ==
    /\ cls = "manager_ctb" /\ ret.op = "extract_thumbnails" /\ ret.status = "ok"
    /\ ret.images[2].angle = 90 /\ ret.images[2].size = <<1, 3>>
    /\ ret.decoded[2].size = <<3, 1>>
    /\ ret.decoded[1].data.n > 2 * ret.decoded[1].count

\* image im is the decode of the block at p
C5_BlockImage(im, p) ==
    /\ im.size = <<FileU32(p), FileU32(p + 4)>>
    /\ im.count = FileU32(p) * FileU32(p + 4)
    /\ im.data = [start |-> p + 12, n |-> Min(FileU32(p + 8), file.len - (p + 12))]
    /\ \A k \in 0..(im.count - 1) :
          DecodedPixel(cls, file, im, k)
              = WordDecode(FileByte(file, p + 12 + 2 * k + 1), FileByte(file, p + 12 + 2 * k))

\* the file with another magic and version word
C5_WithHead(head) ==
    [file EXCEPT !.bytes = LE32(head[1]) \o LE32(head[2]) \o SubSeq(file.bytes, 9, file.len)]

\* C5: a CTB extraction takes the small and large pointers from the
\* little-endian words at offsets 8 and 12, at each pointer the little-endian
\* width, height and data size and then the data, and decodes pixel k from the
\* little-endian word at bytes 2k, 2k+1 of the data; another magic or version
\* word gives the same images.
C5_CtbParse ==
    (cls \in CtbClasses /\ ret.op = "extract_thumbnails" /\ file.len >= 16
        /\ BlockReadable(FileU32(8)) /\ BlockReadable(FileU32(12))) =>
        /\ ret.status = "ok"
        /\ C5_BlockImage(ret.decoded[1], FileU32(8))
        /\ C5_BlockImage(ret.decoded[2], FileU32(12))
        /\ \A head \in CtbHeads :
              /\ ctb_read_previews(C5_WithHead(head)).decoded = ret.decoded
              /\ \A j \in 1..2 : \A k \in 0..(ret.decoded[j].count - 1) :
                    DecodedPixel(cls, C5_WithHead(head), ret.decoded[j], k)
                        = DecodedPixel(cls, file, ret.decoded[j], k)

C5_Witness ==
    /\ cls = "plugin_ctb" /\ ret.op = "extract_thumbnails" /\ ret.status = "ok"
    /\ FileU32(0) = 0 /\ FileU32(4) = 0
    /\ FileU32(8) > FileU32(12)
    /\ ret.decoded[1].size = <<2, 1>> /\ ret.decoded[2].size = <<1, 2>>
    /\ ret.decoded[1].data.start = FileU32(8) + 12

\* the block at p declares a data size other than width * height * 2
C6_Mismatch(p) ==
    p + 12 <= file.len /\ FileU32(p + 8) # FileU32(p) * FileU32(p + 4) * 2

\* C6: a CTB extraction fails whenever a preview block declares a data size
\* other than width * height * 2, smaller or larger.
C6_SizeMismatchFails ==
    (cls \in CtbClasses /\ ret.op = "extract_thumbnails" /\ file.len >= 16
        /\ (C6_Mismatch(FileU32(8)) \/ C6_Mismatch(FileU32(12)))) =>
        ret.status = "raised"

C6_Witness ==
    /\ cls = "plugin_ctb" /\ ret.op = "extract_thumbnails" /\ file.len >= 16
    /\ FileU32(8) + 12 <= file.len
    /\ FileU32(FileU32(8) + 8) = FileU32(FileU32(8)) * FileU32(FileU32(8) + 4) * 2 + 2
    /\ ret.status = "ok" /\ ret.output_dir /\ outdir # {}
    /\ ret.decoded[1].data.n = 2 * ret.decoded[1].count + 2

\* C7: a CTB extraction of a file whose large pointer is at or past the end of
\* the file fails, whatever the small block holds, returns no image and writes
\* no PNG.
C7_LargePastEndFails ==
    (cls \in CtbClasses /\ ret.op = "extract_thumbnails" /\ file.len >= 16
        /\ FileU32(12) >= file.len) =>
        (ret.status = "raised" /\ ret.images = <<>> /\ outdir = {})

C7_Witness ==
    /\ cls = "manager_ctb" /\ ret.op = "extract_thumbnails" /\ file.len >= 16
    /\ FileU32(12) = file.len
    /\ BlockReadable(FileU32(8))
    /\ FileU32(FileU32(8) + 8) = FileU32(FileU32(8)) * FileU32(FileU32(8) + 4) * 2
    /\ ret.output_dir
    /\ ret.status = "raised" /\ ret.error = "struct.error" /\ outdir = {}

\* the two previews read at offset do not lie within the file
C8_OutOfFile(offset) == offset < 0 \/ offset + GooTotalBytes > file.len

\* C8: a successful GOO extraction, with or without auto-adjust, used an
\* offset with 0 <= offset and offset + 26912 + 168200 <= file length; when
\* the offset computed (no search) or found by the search is negative or
\* leaves fewer bytes, the call raises and returns no image.
C8_OffsetInFile ==
    (cls \in GooClasses /\ ret.op = "extract_thumbnails") =>
        /\ ret.status = "ok" =>
              (0 <= ret.offset /\ ret.offset + 26912 + 168200 <= file.len)
        /\ ret.status = "ok" =>
              ret.offset = (IF ret.search.ran THEN ret.search.offset ELSE ret.base_offset)
        /\ (~ret.search.ran /\ C8_OutOfFile(ret.base_offset)) =>
              (ret.status = "raised" /\ ret.images = <<>>)
        /\ (ret.search.ran /\ ret.search.ok /\ C8_OutOfFile(ret.search.offset)) =>
              (ret.status = "raised" /\ ret.images = <<>>)

C8_Witness ==
    /\ cls = "finetune" /\ ret.op = "extract_thumbnails" /\ ret.auto_adjust
    /\ ret.status = "ok" /\ ret.base_offset < 0 /\ ret.offset \in {0, 2}
    /\ ret.offset + GooTotalBytes <= file.len

\* C9: the GOO base offset is 186 + offset_adjustment, and an extractor of
\* any GOO class constructed with its defaults reads the first preview at 194.
C9_BaseOffset ==
    (cls \in GooClasses /\ ret.op = "extract_thumbnails") =>
        /\ (cls # "plain") => ret.base_offset = 186 + offset_adjustment
        /\ (offset_adjustment = DefaultAdjustment(cls) /\ ~ret.auto_adjust
               /\ ret.status = "ok") =>
              (ret.base_offset = 194 /\ ret.decoded[1].data.start = 194)

C9_Witness ==
    /\ cls = "plain" /\ ret.op = "extract_thumbnails" /\ ret.status = "ok"
    /\ ret.base_offset = 186 /\ ret.decoded[1].data.start = 186
    /\ file.len = 186 + 26912 + 168200

\* C10: _detect_orientation returns 0 or 270 and never raises, for every
\* image, zero-sized ones included, in every class that has it.
C10_DetectReturns ==
    (ret.op = "_detect_orientation") =>
        (ret.status = "ok" /\ ret.value \in {0, 270})

C10_Witness ==
    /\ cls = "batch" /\ ret.op = "_detect_orientation"
    /\ img.size = <<0, 2>>
    /\ ret.status = "raised" /\ ret.error = "ZeroDivisionError"

-----------------------------------------------------------------------------
(* The edge sums of the image in img, written out pixel by pixel *)

RECURSIVE LumSum(_)
\* r+g+b summed over the pixels of img at the indices in the set idx
LumSum(idx) ==
    IF idx = {} THEN 0
    ELSE LET i == CHOOSE j \in idx : TRUE
         IN  img.pixels[i][1] + img.pixels[i][2] + img.pixels[i][3] + LumSum(idx \ {i})

RowSum(y) == LumSum({y * img.size[1] + x : x \in 0..(img.size[1] - 1)})
ColumnSum(x) == LumSum({y * img.size[1] + x : y \in 0..(img.size[2] - 1)})

\* (left + right) / (2 H) compared with (top + bottom) / (2 W) * 11/10, both
\* sides multiplied by 20 W H
VerticalScaled == (ColumnSum(0) + ColumnSum(img.size[1] - 1)) * img.size[1] * 10
HorizontalScaled == (RowSum(0) + RowSum(img.size[2] - 1)) * img.size[2] * 11

\* C11: in the manager and plugin classes, on an image of W > 0 by H > 0
\* pixels, _detect_orientation returns 270 exactly when the mean of the left
\* and right column averages exceeds 1.1 times the mean of the top and bottom
\* row averages, and 0 otherwise (where the two sides are exactly equal and
\* non-zero the floating-point comparison decides); the clamping (CTB) and the
\* skipping (GOO) implementation return the same value.
C11_EdgeRule ==
    (ret.op = "_detect_orientation" /\ cls # "batch"
        /\ img.size[1] > 0 /\ img.size[2] > 0) =>
        /\ ret.status = "ok"
        /\ (VerticalScaled > HorizontalScaled) => ret.value = 270
        /\ (VerticalScaled < HorizontalScaled) => ret.value = 0
        /\ (VerticalScaled = HorizontalScaled /\ HorizontalScaled = 0) => ret.value = 0
        /\ ret.value = detect_orientation_ctb(img, ret.tie).value
        /\ ret.value = detect_orientation_goo(img, ret.tie).value

C11_Witness ==
    /\ ret.op = "_detect_orientation" /\ cls = "plugin"
    /\ img.size = <<2, 3>>
    /\ ret.status = "ok" /\ ret.value = 270
    /\ RowSum(0) > 0 /\ RowSum(2) > 0
    /\ ColumnSum(0) # ColumnSum(1)

\* every pixel of img has the same colour, and there is at least one
UniformImage ==
    /\ img.size[1] * img.size[2] > 0
    /\ \A i \in DOMAIN img.pixels : img.pixels[i] = img.pixels[0]

\* C12: on an image whose pixels all have the same colour, black included,
\* _detect_orientation returns 0 in every class that has it.
C12_UniformGivesZero ==
    (ret.op = "_detect_orientation" /\ UniformImage) =>
        (ret.status = "ok" /\ ret.value = 0)

C12_Witness ==
    /\ ret.op = "_detect_orientation" /\ cls = "batch" /\ UniformImage
    /\ img.size = <<3, 2>> /\ img.pixels[0] = <<0, 0, 0>>
    /\ ret.status = "ok" /\ ret.value = 0

-----------------------------------------------------------------------------
\* the pixel indices two images are compared at: all of a small image
ComparedPixels(im) ==
    IF im.count <= 6 THEN 0..(im.count - 1) ELSE ProbePixels(im.size[1], im.size[2])

\* out is src turned by +90 degrees (counter-clockwise) on an expanded canvas:
\* output pixel (x, y) is input pixel (W - 1 - y, x), W the input width
C13_TurnedQuarter(src, out) ==
    /\ out.size = <<src.size[2], src.size[1]>>
    /\ out.count = src.count
    /\ \A k \in ComparedPixels(out) :
          getdata(cls, file, out)[k]
              = DecodedPixel(cls, file, src,
                             (k % out.size[1]) * src.size[1]
                                 + (src.size[1] - 1 - (k \div out.size[1])))
    /\ out.count <= 6 =>
          {(k % out.size[1]) * src.size[1] + (src.size[1] - 1 - (k \div out.size[1])) :
              k \in 0..(out.count - 1)} = 0..(src.count - 1)

\* what rotation value v does to src
C13_Applied(src, out, v) ==
    CASE v = 270 -> C13_TurnedQuarter(src, out)
      [] v = 0 -> out = src
      [] OTHER -> TRUE

\* the rotation values the call can have worked with for src: the one asked
\* for, or the ones detection can return
C13_Rotations(src) ==
    IF cls = "plain" THEN {0}
    ELSE IF cls = "finetune" \/ (cls = "batch" /\ ret.rotate # ROTATE_NONE) THEN {ret.rotate}
    ELSE {detect_orientation(cls, AsImage(cls, file, src), tie).value : tie \in BOOLEAN}

\* C13: a detected or requested rotation of 270 turns the image by +90
\* degrees on an expanded canvas (width and height exchanged, every input
\* pixel exactly once); a rotation of 0 returns the image unchanged.
C13_QuarterTurn ==
    (ret.op = "extract_thumbnails" /\ ret.status = "ok") =>
        \A j \in 1..2 :
            \E v \in C13_Rotations(ret.decoded[j]) :
                C13_Applied(ret.decoded[j], ret.images[j], v)

C13_Witness ==
    /\ cls = "plugin_ctb" /\ ret.op = "extract_thumbnails" /\ ret.status = "ok"
    /\ ret.decoded[2].size = <<3, 1>> /\ ret.images[2].size = <<1, 3>>
    /\ C13_Rotations(ret.decoded[2]) = {270}
    /\ ret.images[1] = ret.decoded[1]

-----------------------------------------------------------------------------
\* the trials of the search just made that were scored, each with what it
\* would put into best_*, trial t being candidate t div 2 in byte order t mod 2
ScoredTrials ==
    {[t |-> t] @@ Trial(cls, file, ret.base_offset, SEARCH_RANGE, t) :
        t \in {u \in 0..(2 * CandidateCount(SEARCH_RANGE) - 1) :
                  ~CandidateSkipped(file, ret.base_offset, SEARCH_RANGE, u \div 2)}}

\* best is the first of the scored trials with the greatest quality
C14_FirstMaximum(scored, best) ==
    \E b \in scored :
        /\ b.offset = best.offset /\ b.endian = best.endian /\ b.quality = best.quality
        /\ \A s \in scored : ~QualityGreater(s.quality, b.quality)
        /\ \A s \in scored : s.t < b.t => QualityGreater(b.quality, s.quality)

\* C14: find_best_offset returns the offset and byte order whose quality is
\* the greatest of the candidates it scored, and of several with that quality
\* the first in the order of the loop (lowest offset, big-endian before
\* little-endian).
C14_BestIsFirstMaximum ==
    (cls = "finetune" /\ ret.op = "extract_thumbnails" /\ ret.search.ran /\ ret.search.ok) =>
        /\ C14_FirstMaximum(ScoredTrials, ret.search)
        /\ best_endian = ret.search.endian

C14_Witness ==
    /\ cls = "finetune" /\ ret.op = "extract_thumbnails" /\ ret.search.ran /\ ret.search.ok
    /\ Cardinality(ScoredTrials) >= 4
    /\ ret.search.endian = ">"
    /\ \E s \in ScoredTrials :
          /\ s.offset > ret.search.offset
          /\ s.quality = ret.search.quality
    /\ \E s \in ScoredTrials :
          /\ s.offset = ret.search.offset /\ s.endian = "<"
          /\ s.quality = ret.search.quality

-----------------------------------------------------------------------------
\* the positions base-100, base-98, ..., base+100 that lie in the file with at
\* least 290*290*2 bytes from there on
C15_Positions ==
    {o \in (ret.base_offset - 100)..(ret.base_offset + 100) :
        /\ (o - (ret.base_offset - 100)) % 2 = 0
        /\ o >= 0
        /\ o + 168200 <= file.len}

\* the 290x290 decode at each such position in both byte orders, with its score
C15_Scores ==
    {[offset |-> o, endian |-> e,
      quality |-> calculate_image_quality(AsImage(cls, file,
                      [size |-> <<290, 290>>, count |-> 84100,
                       data |-> [start |-> o, n |-> 168200],
                       endian |-> e, angle |-> 0]))] :
        o \in C15_Positions, e \in {">", "<"}}

C15_BestOf(scores, search) ==
    /\ search.ok <=> scores # {}
    /\ search.ok =>
          /\ [offset |-> search.offset, endian |-> search.endian,
              quality |-> search.quality] \in scores
          /\ \A s \in scores : ~QualityGreater(s.quality, search.quality)
          /\ ret.base_offset - 100 <= search.offset
          /\ search.offset <= ret.base_offset + 100

\* C15: find_best_offset(base, 100) scores exactly the positions base-100,
\* base-98, ..., base+100 from which 290*290*2 bytes can be read, each in
\* big- and little-endian, and the offset it returns lies in
\* base-100..base+100.
C15_CandidatesScored ==
    (cls = "finetune" /\ ret.op = "extract_thumbnails" /\ ret.search.ran) =>
        C15_BestOf(C15_Scores, ret.search)

C15_Witness ==
    /\ cls = "finetune" /\ ret.op = "extract_thumbnails" /\ ret.search.ran /\ ret.search.ok
    /\ ret.base_offset = 186 /\ file.len = 96 + 168200
    /\ Cardinality(C15_Positions) = 6
    /\ ret.search.offset > 86
    /\ file.kind = "ramp"

-----------------------------------------------------------------------------
\* C16: an extract_thumbnails call without auto_adjust runs no search and
\* decodes both previews at the offset computed from the header as big-endian
\* words, whatever earlier calls left on the instance, a little-endian
\* best_endian included.
C16_NoSearchByDefault ==
    (ret.op = "extract_thumbnails" /\ ~ret.auto_adjust) =>
        /\ ~ret.search.ran
        /\ ret.base_offset = calculate_preview_offset(cls, offset_adjustment)
        /\ ret.status = "ok" =>
              /\ ret.offset = ret.base_offset
              /\ ret.endian = ">"
              /\ C2_RangeDecoded(ret.decoded[1], ret.base_offset, 116, 116)
              /\ C2_RangeDecoded(ret.decoded[2], ret.base_offset + 26912, 290, 290)

C16_Witness ==
    /\ ret.op = "extract_thumbnails" /\ ~ret.auto_adjust /\ ret.status = "ok"
    /\ ret.calls = 2
    /\ best_endian = "<"
    /\ file.kind = "stripe"
    /\ DecodedPixel(cls, file, ret.decoded[1], 0) = <<230, 0, 0>>

-----------------------------------------------------------------------------
\* the output directory holds im under <stem><suffix>, im being the decoded
\* preview dec with its width and height kept, or exchanged by a quarter turn
C17_SavedAs(suffix, im, dec) ==
    /\ [stem |-> file.stem, suffix |-> suffix, image |-> im] \in outdir
    /\ im.data = dec.data
    /\ im.count = dec.count
    /\ im.size = IF im.angle \in {90, -90} THEN <<dec.size[2], dec.size[1]>> ELSE dec.size

\* C17: an extraction that succeeds with an output directory leaves exactly two
\* files there, <stem>_small.png with the small preview and <stem>_big.png with
\* the big one, each of the decoded dimensions up to the rotation applied.
C17_TwoFilesSaved ==
    (ret.op = "extract_thumbnails" /\ ret.status = "ok" /\ ret.output_dir) =>
        /\ Cardinality(outdir) = 2
        /\ C17_SavedAs("_small.png", ret.images[1], ret.decoded[1])
        /\ C17_SavedAs("_big.png", ret.images[2], ret.decoded[2])

C17_Witness ==
    /\ cls = "plugin_ctb" /\ ret.op = "extract_thumbnails" /\ ret.status = "ok"
    /\ ret.output_dir
    /\ ret.images[2].angle = 90
    /\ ret.decoded[2].size[1] # ret.decoded[2].size[2]
    /\ ret.images[1] # ret.images[2]

-----------------------------------------------------------------------------
\* the cache holds the requested name
C18_Cached(dir, filename) ==
    \E e \in dir : e.stem = filename.stem /\ e.suffix = filename.suffix

\* C18: a request to the thumbnail route is answered 200 with the cached file
\* when the name is in the cache and 404 when it is not, and in both cases the
\* cache and the scan state are as before: a miss extracts nothing.
C18_ServeLeavesCache ==
    [][(ret' # ret /\ ret'.op = "serve_thumbnail") =>
          /\ outdir' = outdir
          /\ run' = run
          /\ ret'.status = IF C18_Cached(outdir, ret'.filename) THEN 200 ELSE 404
          /\ ret'.status = 200 =>
                [stem |-> ret'.filename.stem, suffix |-> ret'.filename.suffix,
                 image |-> ret'.body] \in outdir]_vars

\* a miss for a name whose source file is listed and extractable, no scan run
C18_Witness ==
    /\ ret.op = "serve_thumbnail" /\ ret.status = 404
    /\ ret.filename = [stem |-> "a", suffix |-> "_big.png"]
    /\ Len(listing) >= 1 /\ listing[1].ext = ".goo"
    /\ listing[1].content.len = header_fields + 8 + SmallBytes + BigBytes
    /\ run.op = "none"
    /\ ~C18_Cached(outdir, ret.filename)

-----------------------------------------------------------------------------
\* the entry holds a file its extractor can read both previews from
C19_Extractable(e) ==
    \/ e.ext = ".goo" /\ e.content.len >= header_fields + 8 + SmallBytes + BigBytes
    \/ e.ext = ".ctb" /\ e.content.kind = "bytes"

\* the loop has taken the first i - 1 of entries, each once and in order, and
\* is over exactly when it has taken them all (until then its next iteration
\* is the one for entry i)
C19_VisitedOnce(entries) ==
    /\ run.i \in 1..(Len(entries) + 1)
    /\ run.visited = [k \in 1..(run.i - 1) |-> entries[k].stem]
    /\ run.done <=> run.i = Len(entries) + 1

C19_BothPngs(e) ==
    /\ \E x \in outdir : x.stem = e.stem /\ x.suffix = "_small.png"
    /\ \E x \in outdir : x.stem = e.stem /\ x.suffix = "_big.png"

C19_Batch(goo_files) ==
    /\ C19_VisitedOnce(goo_files)
    /\ run.processed + run.skipped + run.failed = run.i - 1
    /\ run.done => run.processed + run.skipped + run.failed = Len(goo_files)
    /\ Len(run.outcomes) = run.i - 1
    /\ \A k \in 1..(run.i - 1) :
          /\ run.outcomes[k] = "failed" <=>
                (~C19_Extractable(goo_files[k]) /\ (run.force \/ ~C19_BothPngs(goo_files[k])))
          /\ run.outcomes[k] = "processed" => C19_BothPngs(goo_files[k])
    /\ Cardinality({k \in 1..(run.i - 1) : run.outcomes[k] = "failed"}) = run.failed
    /\ run.op = "batch_process"
    /\ run.files = goo_files

C19_Scan ==
    /\ C19_VisitedOnce(listing)
    /\ \A k \in 1..(run.i - 1) :
          listing[k].ext \in {".goo", ".ctb"} =>
              [stem |-> listing[k].stem, ext |-> listing[k].ext,
               success |-> (C19_Extractable(listing[k])
                              \/ \E x \in outdir : x.stem = listing[k].stem
                                                     /\ x.suffix = "_big.png")]
                  \in run.results
    /\ Cardinality(run.results)
          = Cardinality({k \in 1..(run.i - 1) : listing[k].ext \in {".goo", ".ctb"}})
    /\ run.op = "scan"
    /\ run.files = listing

\* C19: in batch_process and in the plugin's scan a file whose extraction
\* raises is counted as failed and nothing else changes: every listed file is
\* taken exactly once in order, each with the outcome its own content gives,
\* the loop stays in progress until it is over, and in batch_process
\* processed + skipped + failed is the number of .goo files found.
C19_FailureIsLocal ==
    /\ (cls = "batch" /\ run.op # "none") =>
          C19_Batch(SelectSeq(listing, LAMBDA e : e.ext = ".goo"))
    /\ (cls = "plugin" /\ run.op # "none") => C19_Scan

C19_Witness ==
    /\ cls = "batch" /\ run.op = "batch_process" /\ run.done
    /\ Len(listing) = 3 /\ listing[1].ext = ".txt"
    /\ run.outcomes = <<"failed", "processed">>
    /\ run.failed = 1 /\ run.processed = 1

-----------------------------------------------------------------------------
\* every pixel of image im is colour
C20_Entirely(im, colour) ==
    \A k \in 0..(im.count - 1) : DecodedPixel(cls, file, im, k) = colour

\* the extraction returned a 116x116 image entirely (255,0,0) and a 290x290
\* image entirely (0,255,0)
C20_RedAndGreen ==
    /\ ret.status = "ok"
    /\ ret.images[1].size = <<116, 116>> /\ ret.images[1].count = 116 * 116
    /\ ret.images[2].size = <<290, 290>> /\ ret.images[2].count = 290 * 290
    /\ C20_Entirely(ret.images[1], <<255, 0, 0>>)
    /\ C20_Entirely(ret.images[2], <<0, 255, 0>>)

\* an extraction by the batch class with offset_adjustment = 8 from a file of
\* n bytes: zero header, 0xF800 over the small preview, 0x07E0 after it
C20_Scenario(n) ==
    /\ cls = "batch" /\ offset_adjustment = 8
    /\ file.kind = "solid" /\ file.len = n
    /\ ret.op = "extract_thumbnails"

\* C20 as stated: the buffer is 10 000 bytes long.
C20_TenThousandBytes == C20_Scenario(10000) => C20_RedAndGreen

\* C20: extracting a GOO-shaped buffer of 194 + 26912 + 168200 bytes with a
\* zero header, offset_adjustment = 8, the small preview filled with 0xF800
\* and the big one with 0x07E0 gives a 116x116 image entirely (255,0,0) and a
\* 290x290 image entirely (0,255,0).
C20_SolidColours ==
    C20_Scenario(header_fields + 8 + SmallBytes + BigBytes) => C20_RedAndGreen

C20_Witness ==
    /\ C20_Scenario(header_fields + 8 + SmallBytes + BigBytes)
    /\ ret.status = "ok"
    /\ ret.rotate = ROTATE_NONE
    /\ DecodedPixel(cls, file, ret.images[1], 13455) = <<255, 0, 0>>
    /\ DecodedPixel(cls, file, ret.images[2], 0) = <<0, 255, 0>>

-----------------------------------------------------------------------------
\* img is square and the mean of its left and right column averages exceeds
\* 1.2 times the mean of its top and bottom row averages (more than either
\* threshold in the code)
C22_SquareWithVerticalEdges ==
    /\ img.size[1] = img.size[2] /\ img.size[1] > 0
    /\ (ColumnSum(0) + ColumnSum(img.size[1] - 1)) * 10
          > (RowSum(0) + RowSum(img.size[2] - 1)) * 12

\* C22: in the GOO classes that detect the orientation (batch, manager,
\* plugin) a square image goes through the edge analysis: when its left and
\* right edges exceed its top and bottom edges by more than the threshold,
\* _detect_orientation returns 270.
C22_SquareAnalysed ==
    (ret.op = "_detect_orientation" /\ cls \in {"batch", "manager", "plugin"}
        /\ C22_SquareWithVerticalEdges) =>
        (ret.status = "ok" /\ ret.value = 270)

C22_Witness ==
    /\ ret.op = "_detect_orientation" /\ cls = "batch"
    /\ C22_SquareWithVerticalEdges
    /\ img.size = <<3, 3>>
    /\ ret.status = "ok" /\ ret.value = 0
    /\ detect_orientation_goo(img, ret.tie).value = 270

-----------------------------------------------------------------------------
(* The score of the image in img, written out over the sampled positions *)

\* |p - q| summed over the three channels, for the pixels at indices i and j
C23_Diff(i, j) ==
    LET d(c) == IF img.pixels[i][c] < img.pixels[j][c]
                THEN img.pixels[j][c] - img.pixels[i][c]
                ELSE img.pixels[i][c] - img.pixels[j][c]
    IN  d(1) + d(2) + d(3)

\* every 5th row, and the left/right difference summed over a set of rows
C23_EdgeRows == {y \in 0..(img.size[2] - 1) : y % 5 = 0}

RECURSIVE C23_EdgeSum(_)
C23_EdgeSum(rows) ==
    IF rows = {} THEN 0
    ELSE LET y == CHOOSE r \in rows : TRUE
         IN  C23_Diff(y * img.size[1], y * img.size[1] + img.size[1] - 1)
                + C23_EdgeSum(rows \ {y})

\* the sampled horizontally adjacent pairs (index of the left pixel): every
\* 10th row, every 10th column that has a right neighbour
C23_Pairs ==
    {y * img.size[1] + x :
        x \in {c \in 0..(img.size[1] - 2) : c % 10 = 0},
        y \in {r \in 0..(img.size[2] - 1) : r % 10 = 0}}

C23_Similar == {i \in C23_Pairs : C23_Diff(i, i + 1) < 50}

\* q = coherence * 100 - edgeDiscontinuity / 10 for the fraction q
C23_IsScore(q, pairs, similar, rows, esum) ==
    /\ q.den > 0
    /\ IF pairs = 0
       THEN q.num * (10 * rows) = (0 - esum) * q.den
       ELSE q.num * (pairs * 10 * rows) = (similar * 1000 * rows - esum * pairs) * q.den

C23_Uniform == \A i \in DOMAIN img.pixels : img.pixels[i] = img.pixels[0]

\* C23 as stated: the score is coherence * 100 - edgeDiscontinuity / 10, never
\* exceeds 100, and is exactly 100 for every uniform image.
C23_UniformAlwaysHundred ==
    (ret.op = "_calculate_image_quality" /\ ret.status = "ok") =>
        /\ C23_IsScore(ret.quality, Cardinality(C23_Pairs), Cardinality(C23_Similar),
                       Cardinality(C23_EdgeRows), C23_EdgeSum(C23_EdgeRows))
        /\ ret.quality.num <= 100 * ret.quality.den
        /\ C23_Uniform => ret.quality.num = 100 * ret.quality.den

\* C23: _calculate_image_quality returns coherence * 100 - edgeDiscontinuity / 10,
\* coherence being the share of the sampled adjacent pairs (every 10th row, every
\* 10th column) that differ by less than 50 in summed channels (0 when no pair
\* is sampled) and edgeDiscontinuity the mean summed channel difference between
\* the left and right pixel of every 5th row; the score never exceeds 100, and
\* a uniform image at least two pixels wide scores exactly 100 (one pixel wide:
\* 0).
C23_QualityFormula ==
    (ret.op = "_calculate_image_quality" /\ ret.status = "ok") =>
        /\ C23_IsScore(ret.quality, Cardinality(C23_Pairs), Cardinality(C23_Similar),
                       Cardinality(C23_EdgeRows), C23_EdgeSum(C23_EdgeRows))
        /\ ret.quality.num <= 100 * ret.quality.den
        /\ (C23_Uniform /\ img.size[1] >= 2) => ret.quality.num = 100 * ret.quality.den
        /\ (C23_Uniform /\ img.size[1] = 1) => ret.quality.num = 0

C23_Witness ==
    /\ ret.op = "_calculate_image_quality" /\ ret.status = "ok"
    /\ img.size = <<22, 11>>
    /\ Cardinality(C23_Pairs) = 6
    /\ Cardinality(C23_Similar) \in 1..5
    /\ C23_EdgeSum(C23_EdgeRows) > 0

-----------------------------------------------------------------------------
(* The web layer: the POST /upload routes of main.py and of the plugin, the
   plugin's /scan-thumbnails and /thumbnails/<filename> routes and its
   action_delete handler, run by concurrent workers.  listing is the upload
   folder (both routes save into it), outdir is THUMBNAIL_CACHE_DIR, and
   requests[w] is the request worker w is handling.  Each action is one step
   of a handler between two accesses to the folder, the cache or a lock; ret
   is the response that step sent, Pending when it sent none. *)

\* concurrent workers
MaxWorkers == 2
Workers == 1..MaxWorkers

\* main.py has the module-level uploadLock, the plugin has self.uploadLock
Routes == {"main", "plugin"}

NoRequest == [kind |-> "none"]

\* the files clients upload: model.goo and model.ctb
UploadEntries ==
    {[stem |-> "model", ext |-> ".goo", content |-> [GooGood EXCEPT !.stem = "model"]],
     [stem |-> "model", ext |-> ".ctb", content |-> [CtbGood EXCEPT !.stem = "model"]]}

\* the multipart forms of POST /upload
UploadForms ==
    {[kind |-> k, entry |-> CHOOSE e \in UploadEntries : e.ext = ".ctb"] :
        k \in {"no_file", "no_filename", "no_printer", "unknown_printer", "bad_type"}}
    \cup {[kind |-> "ok", entry |-> e] : e \in UploadEntries}

\* a file on the printer named in the file list of a scan request
PrinterFile ==
    [stem |-> "remote", ext |-> ".goo", content |-> [GooGood EXCEPT !.stem = "remote"]]
FileLists == {<<>>, <<PrinterFile>>}

\* what _download_file_from_printer leaves of file f: nothing (it returns
\* False), the file cut short after the small preview, or the whole file
Downloads(f) ==
    {[ok |-> FALSE, entry |-> f],
     [ok |-> TRUE, entry |-> [f EXCEPT !.content = [GooShort EXCEPT !.stem = f.stem]]],
     [ok |-> TRUE, entry |-> f]}

\* os.path.splitext / Path.stem of ".temp_" + filename: the leading dot does
\* not start a suffix
TempEntry(e) == [e EXCEPT !.stem = ".temp_" \o e.stem]

\* image.save(path): a file of that name is replaced
SavePng(dir, stem, suffix, image) ==
    {e \in dir : ~(e.stem = stem /\ e.suffix = suffix)}
        \cup {[stem |-> stem, suffix |-> suffix, image |-> image]}

\* os.remove(path) if os.path.exists(path)
RemovePng(dir, stem, suffix) ==
    {e \in dir : ~(e.stem = stem /\ e.suffix = suffix)}

\* file.save(filepath): the folder in name order, a file of that name replaced
SaveFile(entries, e) ==
    LET others == SelectSeq(entries, LAMBDA x : ~(x.stem = e.stem /\ x.ext = e.ext))
        before == SelectSeq(others, LAMBDA x : x.ext = ".ctb" /\ e.ext = ".goo")
        after == SelectSeq(others, LAMBDA x : ~(x.ext = ".ctb" /\ e.ext = ".goo"))
    IN  before \o <<e>> \o after

\* the file now stored under the name of e, NoFile when there is none
StoredFile(entries, e) ==
    LET same == SelectSeq(entries, LAMBDA x : x.stem = e.stem /\ x.ext = e.ext)
    IN  IF same = <<>> THEN [e EXCEPT !.content = NoFile] ELSE same[1]

\* what _extract_thumbnail_to_cache gives for each file of the web layer,
\* worked out once
CacheExtractions ==
    [e \in UploadEntries \cup {TempEntry(d.entry) : d \in Downloads(PrinterFile)},
     tie \in BOOLEAN |->
        extract_thumbnail_to_cache(e, tie)]

\* self._extract_thumbnail_to_cache(filepath, base_filename) on file e: False
\* at once when the file does not exist
web_extract(e, tie) ==
    IF e.content = NoFile THEN [status |-> "missing", images |-> <<>>]
    ELSE IF <<e, tie>> \in DOMAIN CacheExtractions THEN CacheExtractions[e, tie]
    ELSE extract_thumbnail_to_cache(e, tie)

InitWeb ==
    /\ cls = "plugin"
    /\ file = NoFile
    /\ offset_adjustment = DefaultAdjustment(cls)
    /\ best_endian = "unset"
    /\ pixel = 0
    /\ img = NoImage
    /\ ret = Pending
    /\ outdir = {}
    /\ listing = <<>>
    /\ run = Idle
    /\ uploadLock = [route \in Routes |-> FALSE]
    /\ requests = [w \in Workers |-> NoRequest]

\* a request that arrives is handed to the first worker that is free
Free(w) ==
    /\ requests[w] = NoRequest
    /\ \A v \in Workers : v < w => requests[v] # NoRequest

\* the checks of upload_file between acquiring the lock and saving the file:
\* the status returned, 0 when the request goes on.  An unknown printer id
\* makes self.printers[...] raise KeyError, which leaves the handler (500).
upload_checks(form) ==
    CASE form.kind \in {"no_file", "no_filename", "no_printer", "bad_type"} -> 400
      [] form.kind = "unknown_printer" -> 500
      [] OTHER -> 0

\* a plausible slip: the lock released after the try block instead of in a
\* finally clause, so that the KeyError leaves it held
lock_after_checks_no_finally(form) == upload_checks(form) \in {0, 500}

\* the lock once the checks are over: held only when the request goes on,
\* every return and the KeyError passing through the finally clause
lock_after_checks(form) == upload_checks(form) = 0

upload_response(route, status) ==
    [op |-> "upload", route |-> route, status |-> status]

\* POST /upload up to the point where the file is about to be saved
UploadFile(w, route, form) ==
    /\ Free(w)
    /\ IF uploadLock[route]
       THEN /\ ret' = upload_response(route, 429)
            /\ UNCHANGED <<uploadLock, requests>>
       ELSE /\ uploadLock' = [uploadLock EXCEPT ![route] = lock_after_checks(form)]
            /\ IF upload_checks(form) = 0
               THEN /\ requests' = [requests EXCEPT ![w] =
                           [kind |-> "upload", route |-> route, pc |-> "save",
                            entry |-> form.entry]]
                    /\ ret' = Pending
               ELSE /\ ret' = upload_response(route, upload_checks(form))
                    /\ UNCHANGED requests
    /\ UNCHANGED <<cls, file, offset_adjustment, best_endian, pixel, img, outdir,
                   listing, run>>

\* the lock released in the finally clause and the response sent
upload_return(w, status) ==
    /\ ret' = upload_response(requests[w].route, status)
    /\ uploadLock' = [uploadLock EXCEPT ![requests[w].route] = FALSE]
    /\ requests' = [requests EXCEPT ![w] = NoRequest]

\* file.save(filepath); an exception in it is answered with 500.  Only the
\* plugin goes on to extract the thumbnails of a .goo or .ctb file.
UploadSave(w) ==
    /\ requests[w].kind = "upload" /\ requests[w].pc = "save"
    /\ \E saved \in BOOLEAN :
          IF saved
          THEN /\ listing' = SaveFile(listing, requests[w].entry)
               /\ requests' = [requests EXCEPT ![w].pc =
                      IF requests[w].route = "plugin" THEN "extract" ELSE "send"]
               /\ ret' = Pending
               /\ UNCHANGED uploadLock
          ELSE upload_return(w, 500) /\ UNCHANGED listing
    /\ UNCHANGED <<cls, file, offset_adjustment, best_endian, pixel, img, outdir, run>>

\* self._extract_thumbnail_to_cache(filepath, filename) up to
\* small_preview.save(small_path); a failed extraction is only logged
UploadExtract(w) ==
    /\ requests[w].kind = "upload" /\ requests[w].pc = "extract"
    /\ \E tie \in BOOLEAN :
          LET e == StoredFile(listing, requests[w].entry)
              r == web_extract(e, tie)
          IN  IF r.status = "ok"
              THEN /\ outdir' = SavePng(outdir, e.stem, "_small.png", r.images[1])
                   /\ requests' = [requests EXCEPT ![w] =
                          [pc |-> "big", stem |-> e.stem, big |-> r.images[2]] @@ @]
              ELSE /\ requests' = [requests EXCEPT ![w].pc = "send"]
                   /\ UNCHANGED outdir
    /\ ret' = Pending
    /\ UNCHANGED <<cls, file, offset_adjustment, best_endian, pixel, img,
                   listing, run, uploadLock>>

\* big_preview.save(big_path)
UploadSaveBig(w) ==
    /\ requests[w].kind = "upload" /\ requests[w].pc = "big"
    /\ outdir' = SavePng(outdir, requests[w].stem, "_big.png", requests[w].big)
    /\ requests' = [requests EXCEPT ![w] =
           [kind |-> "upload", route |-> @.route, pc |-> "send", entry |-> @.entry]]
    /\ ret' = Pending
    /\ UNCHANGED <<cls, file, offset_adjustment, best_endian, pixel, img,
                   listing, run, uploadLock>>

\* the rest of upload_file: the file goes to the printer or the USB gadget is
\* refreshed, and the answer is 200 or 500
UploadSend(w) ==
    /\ requests[w].kind = "upload" /\ requests[w].pc = "send"
    /\ \E status \in {200, 500} : upload_return(w, status)
    /\ UNCHANGED <<cls, file, offset_adjustment, best_endian, pixel, img, outdir,
                   listing, run>>

\* results[filename] = success
web_result(results, e, success) ==
    {x \in results : ~(x.stem = e.stem /\ x.ext = e.ext)}
        \cup {[stem |-> e.stem, ext |-> e.ext, success |-> success]}

\* POST /scan-thumbnails with a file list of the printer
ScanThumbnails(w, file_list) ==
    /\ Free(w)
    /\ requests' = [requests EXCEPT ![w] =
           [kind |-> "scan", pc |-> IF file_list = <<>> THEN "listdir" ELSE "printer",
            file_list |-> file_list, results |-> {}]]
    /\ ret' = Pending
    /\ UNCHANGED <<cls, file, offset_adjustment, best_endian, pixel, img,
                   outdir, listing, run, uploadLock>>

\* the printer file is done: on to the next one, or to the upload folder
printer_file_done(w, success) ==
    LET q == requests[w]
        rest == Tail(q.file_list)
    IN  requests' = [requests EXCEPT ![w] =
            [kind |-> "scan", pc |-> IF rest = <<>> THEN "listdir" ELSE "printer",
             file_list |-> rest,
             results |-> web_result(q.results, Head(q.file_list), success)]]

\* one printer file of the list: cached already when <base_name>_big.png is in
\* the cache; otherwise _extract_thumbnail_from_printer_file downloads it to
\* .temp_<filename> in the cache directory and hands that path to
\* _extract_thumbnail_to_cache, whose extractor names the PNGs after it
ScanPrinterFile(w) ==
    /\ requests[w].kind = "scan" /\ requests[w].pc = "printer"
    /\ LET f == Head(requests[w].file_list)
       IN  IF PngExists(outdir, f.stem, "_big.png")
           THEN printer_file_done(w, TRUE) /\ UNCHANGED outdir
           ELSE \E downloaded \in Downloads(f), tie \in BOOLEAN :
                   LET t == TempEntry(downloaded.entry)
                       r == web_extract(t, tie)
                   IN  IF downloaded.ok /\ r.status = "ok"
                       THEN /\ outdir' = SavePng(outdir, t.stem, "_small.png", r.images[1])
                            /\ requests' = [requests EXCEPT ![w] =
                                   [pc |-> "printer_big", stem |-> t.stem,
                                    big |-> r.images[2]] @@ @]
                       ELSE printer_file_done(w, FALSE) /\ UNCHANGED outdir
    /\ ret' = Pending
    /\ UNCHANGED <<cls, file, offset_adjustment, best_endian, pixel, img,
                   listing, run, uploadLock>>

\* big_preview.save(big_path) of the downloaded file; success = True
ScanPrinterSaveBig(w) ==
    /\ requests[w].kind = "scan" /\ requests[w].pc = "printer_big"
    /\ outdir' = SavePng(outdir, requests[w].stem, "_big.png", requests[w].big)
    /\ printer_file_done(w, TRUE)
    /\ ret' = Pending
    /\ UNCHANGED <<cls, file, offset_adjustment, best_endian, pixel, img,
                   listing, run, uploadLock>>

\* the JSON answer of scan_thumbnails
scan_return(w, results) ==
    /\ ret' = [op |-> "scan_thumbnails", status |-> 200, results |-> results]
    /\ requests' = [requests EXCEPT ![w] = NoRequest]

\* os.listdir(self.UPLOAD_FOLDER) of _scan_and_extract_thumbnails
ScanListdir(w) ==
    /\ requests[w].kind = "scan" /\ requests[w].pc = "listdir"
    /\ IF listing = <<>>
       THEN scan_return(w, requests[w].results)
       ELSE /\ requests' = [requests EXCEPT ![w] =
                   [kind |-> "scan", pc |-> "local", files |-> listing, i |-> 1,
                    results |-> @.results]]
            /\ ret' = Pending
    /\ UNCHANGED <<cls, file, offset_adjustment, best_endian, pixel, img,
                   outdir, listing, run, uploadLock>>

\* the file of the folder is done: on to the next one, or the answer
local_file_done(w, results) ==
    LET q == requests[w]
    IN  IF q.i = Len(q.files)
        THEN scan_return(w, results)
        ELSE /\ requests' = [requests EXCEPT ![w] =
                    [kind |-> "scan", pc |-> "local", files |-> q.files,
                     i |-> q.i + 1, results |-> results]]
             /\ ret' = Pending

\* one name of the folder: skipped unless .goo or .ctb, cached already when
\* <base_name>_big.png is in the cache, otherwise extracted from the file as
\* it is now, up to small_preview.save(small_path)
ScanLocalFile(w) ==
    /\ requests[w].kind = "scan" /\ requests[w].pc = "local"
    /\ LET q == requests[w]
           entry == q.files[q.i]
       IN  IF entry.ext \notin {".goo", ".ctb"}
           THEN local_file_done(w, q.results) /\ UNCHANGED outdir
           ELSE IF PngExists(outdir, entry.stem, "_big.png")
           THEN local_file_done(w, web_result(q.results, entry, TRUE)) /\ UNCHANGED outdir
           ELSE \E tie \in BOOLEAN :
                   LET e == StoredFile(listing, entry)
                       r == web_extract(e, tie)
                   IN  IF r.status = "ok"
                       THEN /\ outdir' = SavePng(outdir, e.stem, "_small.png", r.images[1])
                            /\ requests' = [requests EXCEPT ![w] =
                                   [pc |-> "local_big", stem |-> e.stem,
                                    big |-> r.images[2]] @@ @]
                            /\ ret' = Pending
                       ELSE /\ local_file_done(w, web_result(q.results, entry, FALSE))
                            /\ UNCHANGED outdir
    /\ UNCHANGED <<cls, file, offset_adjustment, best_endian, pixel, img,
                   listing, run, uploadLock>>

\* big_preview.save(big_path) of the file of the folder; success = True
ScanLocalSaveBig(w) ==
    /\ requests[w].kind = "scan" /\ requests[w].pc = "local_big"
    /\ outdir' = SavePng(outdir, requests[w].stem, "_big.png", requests[w].big)
    /\ local_file_done(w, web_result(requests[w].results,
                                     requests[w].files[requests[w].i], TRUE))
    /\ UNCHANGED <<cls, file, offset_adjustment, best_endian, pixel, img,
                   listing, run, uploadLock>>

\* the files clients delete
DeletedNames == {[stem |-> "model", ext |-> ".goo"]}

\* handle_action_delete(data) up to the removal of <base_name>_small.png
ActionDelete(w, name) ==
    /\ Free(w)
    /\ outdir' = RemovePng(outdir, name.stem, "_small.png")
    /\ requests' = [requests EXCEPT ![w] = [kind |-> "delete", pc |-> "big", name |-> name]]
    /\ ret' = Pending
    /\ UNCHANGED <<cls, file, offset_adjustment, best_endian, pixel, img,
                   listing, run, uploadLock>>

\* the removal of <base_name>_big.png
ActionDeleteBig(w) ==
    /\ requests[w].kind = "delete" /\ requests[w].pc = "big"
    /\ outdir' = RemovePng(outdir, requests[w].name.stem, "_big.png")
    /\ requests' = [requests EXCEPT ![w].pc = "file"]
    /\ ret' = Pending
    /\ UNCHANGED <<cls, file, offset_adjustment, best_endian, pixel, img,
                   listing, run, uploadLock>>

\* the file itself: on a virtual USB gadget _delete_file_from_mount removes it
\* from the mount point (the upload folder in gadget mode), otherwise the
\* printer is sent the delete command and the folder is left alone
ActionDeleteFile(w) ==
    /\ requests[w].kind = "delete" /\ requests[w].pc = "file"
    /\ \E on_mount \in BOOLEAN :
          listing' = IF on_mount
                     THEN SelectSeq(listing, LAMBDA x : ~(x.stem = requests[w].name.stem
                                                           /\ x.ext = requests[w].name.ext))
                     ELSE listing
    /\ requests' = [requests EXCEPT ![w] = NoRequest]
    /\ ret' = Pending
    /\ UNCHANGED <<cls, file, offset_adjustment, best_endian, pixel, img,
                   outdir, run, uploadLock>>

\* names requested from /thumbnails/<filename>
WebServedNames ==
    {[stem |-> "remote", suffix |-> "_big.png"], [stem |-> "model", suffix |-> "_big.png"]}

NextWeb ==
    \/ \E w \in Workers, route \in Routes, form \in UploadForms : UploadFile(w, route, form)
    \/ \E w \in Workers : UploadSave(w)
    \/ \E w \in Workers : UploadExtract(w)
    \/ \E w \in Workers : UploadSaveBig(w)
    \/ \E w \in Workers : UploadSend(w)
    \/ \E w \in Workers, file_list \in FileLists : ScanThumbnails(w, file_list)
    \/ \E w \in Workers : ScanPrinterFile(w)
    \/ \E w \in Workers : ScanPrinterSaveBig(w)
    \/ \E w \in Workers : ScanListdir(w)
    \/ \E w \in Workers : ScanLocalFile(w)
    \/ \E w \in Workers : ScanLocalSaveBig(w)
    \/ \E w \in Workers, name \in DeletedNames : ActionDelete(w, name)
    \/ \E w \in Workers : ActionDeleteBig(w)
    \/ \E w \in Workers : ActionDeleteFile(w)
    \/ \E filename \in WebServedNames : ServeThumbnail(filename)

SpecWeb == InitWeb /\ [][NextWeb]_vars

-----------------------------------------------------------------------------
\* both PNGs of the file are beside it
C24_HasThumbnails(dir, f) ==
    /\ [stem |-> f.stem, suffix |-> "_small.png"]
          \in {[stem |-> e.stem, suffix |-> e.suffix] : e \in dir}
    /\ [stem |-> f.stem, suffix |-> "_big.png"]
          \in {[stem |-> e.stem, suffix |-> e.suffix] : e \in dir}

\* C24: in every iteration of batch_process the file is extracted (ending
\* processed or failed) exactly when force is set or one of its two PNGs is
\* missing, and skipped otherwise; in a second run without force every file
\* the first run processed is skipped.
C24_SkipsProcessed ==
    [][(run.op = "batch_process" /\ run'.op = "batch_process"
          /\ run'.again = run.again /\ run'.i = run.i + 1) =>
          /\ run'.outcomes[run.i] \in {"processed", "failed", "skipped"}
          /\ run'.outcomes[run.i] = "skipped" <=>
                (~run.force /\ C24_HasThumbnails(outdir, run.files[run.i]))
          /\ run'.outcomes[run.i] = "skipped" => outdir' = outdir
          /\ (run.again /\ ~run.force /\ run.earlier[run.i] = "processed") =>
                run'.outcomes[run.i] = "skipped"]_vars

C24_Witness ==
    /\ cls = "batch" /\ run.op = "batch_process" /\ run.done
    /\ run.again /\ ~run.force
    /\ run.earlier = <<"processed", "failed", "processed">>
    /\ run.outcomes = <<"skipped", "failed", "skipped">>

-----------------------------------------------------------------------------
\* an extraction by the fine-tuning class with auto_adjust=True
C26_Searched ==
    cls = "finetune" /\ ret.op = "extract_thumbnails" /\ ret.auto_adjust

\* the image the winning trial of the search scored: 290 x 290 pixels decoded
\* from the bytes at the returned offset in the chosen byte order
C26_ScoredImage ==
    extract_preview_image(Read(file, ret.search.offset,
                               BIG_PREVIEW_SIZE[1] * BIG_PREVIEW_SIZE[2] * 2),
                          BIG_PREVIEW_SIZE[1], BIG_PREVIEW_SIZE[2],
                          ret.search.endian).image

C26_SamePixels(a, b) ==
    /\ a.size = b.size /\ a.count = b.count
    /\ \A k \in 0..(a.count - 1) :
          DecodedPixel(cls, file, a, k) = DecodedPixel(cls, file, b, k)

\* C26: with auto_adjust=True the big preview decoded by extract_thumbnails is
\* the image that got the best score in find_best_offset, i.e. the 290 x 290
\* pixels decoded from the bytes at the returned offset in the chosen byte
\* order.
C26_BigPreviewIsTheScoredImage ==
    (C26_Searched /\ ret.status = "ok") =>
        /\ ret.decoded[2].data.start = ret.search.offset
        /\ C26_SamePixels(ret.decoded[2], C26_ScoredImage)

\* a search that chose offset 2, after which the big preview was read behind
\* the small one and differs from the scored image in its first pixel
C26_Witness ==
    /\ C26_Searched /\ ret.status = "ok"
    /\ file.kind = "ramp" /\ ret.search.offset = 2
    /\ ret.decoded[2].data.start = 2 + 26912
    /\ DecodedPixel(cls, file, ret.decoded[2], 0)
          # DecodedPixel(cls, file, C26_ScoredImage, 0)

-----------------------------------------------------------------------------
\* C27: find_best_offset returns normally on every file: when every candidate
\* is skipped it returns base_offset and leaves a byte order in best_endian,
\* and the extraction with auto_adjust=True then fails with the
\* insufficient-data error and no other.
C27_SearchAlwaysReturns ==
    C26_Searched =>
        /\ ret.search.ran /\ ret.search.ok
        /\ ScoredCandidates(file, ret.base_offset, SEARCH_RANGE) = 0 =>
              /\ ret.search.offset = ret.base_offset
              /\ best_endian \in {">", "<"}
              /\ ret.status = "raised"
              /\ ret.error = "ValueError: Insufficient data"

\* an empty file: no candidate is scored and the search itself raises
C27_Witness ==
    /\ C26_Searched /\ file.len = 0
    /\ ScoredCandidates(file, ret.base_offset, SEARCH_RANGE) = 0
    /\ ret.search.ran /\ ~ret.search.ok
    /\ ret.status = "raised" /\ ret.error = "UnboundLocalError"
    /\ best_endian = "unset"

-----------------------------------------------------------------------------
\* worker w has saved <stem>_small.png and is about to save <stem>_big.png
C21_Writing(w, stem) ==
    /\ requests[w].kind \in {"upload", "scan"}
    /\ requests[w].pc \in {"big", "local_big", "printer_big"}
    /\ requests[w].stem = stem

\* C21: extractions into the same cache path are serialized: no two requests
\* (two uploads, two scans, or an upload and a scan) are at the same time
\* writing <basename>_small.png / <basename>_big.png of one basename.
C21_OneWriterPerBasename ==
    \A v, w \in Workers : \A stem \in {"model", ".temp_remote"} :
        (C21_Writing(v, stem) /\ C21_Writing(w, stem)) => v = w

\* an upload and a scan both between the two saves for basename model
C21_Witness ==
    \E v, w \in Workers :
        /\ requests[v].kind = "upload" /\ C21_Writing(v, "model")
        /\ requests[w].kind = "scan" /\ C21_Writing(w, "model")
        /\ uploadLock["plugin"]

-----------------------------------------------------------------------------
\* the scan answered, reporting True for the printer file remote.goo
C25_PrinterFileReportedTrue ==
    /\ ret.op = "scan_thumbnails"
    /\ [stem |-> "remote", ext |-> ".goo", success |-> TRUE] \in ret.results

\* C25: once the extraction of a printer file has returned True the cache
\* holds <stem>_small.png and <stem>_big.png of that file name (so that the
\* next scan finds it cached and /thumbnails/<stem>_big.png serves it).
C25_PrinterFileCached ==
    C25_PrinterFileReportedTrue =>
        /\ PngExists(outdir, "remote", "_small.png")
        /\ PngExists(outdir, "remote", "_big.png")
        /\ serve_thumbnail(outdir, listing,
                           [stem |-> "remote", suffix |-> "_big.png"]).status = 200

\* True was reported, and the PNGs are in the cache under the name of the
\* temporary download
C25_Witness ==
    /\ C25_PrinterFileReportedTrue
    /\ PngExists(outdir, ".temp_remote", "_small.png")
    /\ PngExists(outdir, ".temp_remote", "_big.png")
    /\ ~PngExists(outdir, "remote", "_big.png")
    /\ serve_thumbnail(outdir, listing,
                       [stem |-> "remote", suffix |-> "_big.png"]).status = 404

-----------------------------------------------------------------------------
\* the uploads past the lock of a route
C28_PastLock(reqs, route) ==
    {w \in Workers : reqs[w].kind = "upload" /\ reqs[w].route = route}

\* the lock of each route is held exactly while one upload is past it
C28_HeldWhileProcessing(reqs, lock) ==
    \A route \in Routes :
        /\ Cardinality(C28_PastLock(reqs, route)) <= 1
        /\ lock[route] <=> C28_PastLock(reqs, route) # {}

\* C28: the upload lock is held exactly while one POST /upload is processed:
\* at most one upload is past it; a POST is answered 429 exactly when it
\* arrives while the lock is held, and then no file is saved and the cache is
\* not written; every other way out of the handler (success, the 400 and 500
\* answers, the unknown printer id) releases the lock, so that an upload
\* arriving when no upload is in progress is not answered 429.
C28_UploadLock ==
    [][/\ C28_HeldWhileProcessing(requests, uploadLock)
       /\ C28_HeldWhileProcessing(requests', uploadLock')
       /\ (ret'.op = "upload" /\ ret'.status = 429) =>
             /\ uploadLock[ret'.route] /\ C28_PastLock(requests, ret'.route) # {}
             /\ outdir' = outdir /\ listing' = listing
             /\ requests' = requests /\ uploadLock' = uploadLock
       /\ \A route \in Routes :
             (C28_PastLock(requests', route) # C28_PastLock(requests, route)
                 /\ C28_PastLock(requests, route) = {}) => ~uploadLock[route]
       /\ (ret'.op = "upload" /\ ret'.status # 429) => ~uploadLock'[ret'.route]]_vars

\* a POST to the plugin answered 429 while another upload is between its two
\* saves into the cache
C28_Witness ==
    /\ ret.op = "upload" /\ ret.route = "plugin" /\ ret.status = 429
    /\ uploadLock["plugin"]
    /\ \E w \in Workers : requests[w].kind = "upload" /\ requests[w].route = "plugin"
                             /\ requests[w].pc = "big"

-----------------------------------------------------------------------------
C29_BigName(stem) == [stem |-> stem, suffix |-> "_big.png"]

\* the big preview _extract_thumbnail_to_cache gives for the stored file x
C29_PreviewsOf(x) ==
    {r.images[2] : r \in {q \in {web_extract(StoredFile(listing, x), tie) : tie \in BOOLEAN} :
                              q.status = "ok"}}

\* C29: a cached thumbnail belongs to the file it is used for: when a scan
\* reports True for a file of the upload folder, the cache entry
\* <stem>_big.png holds the big preview extracted from that file.
C29_CacheBelongsToFile ==
    ret.op = "scan_thumbnails" =>
        \A x \in ret.results :
            (x.success /\ x.stem = "model" /\ PngExists(outdir, x.stem, "_big.png")) =>
                CachedFile(outdir, C29_BigName(x.stem)).image \in C29_PreviewsOf(x)

\* nothing else in progress, model.goo and model.ctb both reported True, and
\* model_big.png is the preview of model.ctb, not that of model.goo
C29_Witness ==
    /\ ret.op = "scan_thumbnails"
    /\ \A w \in Workers : requests[w] = NoRequest
    /\ [stem |-> "model", ext |-> ".goo", success |-> TRUE] \in ret.results
    /\ [stem |-> "model", ext |-> ".ctb", success |-> TRUE] \in ret.results
    /\ PngExists(outdir, "model", "_big.png")
    /\ CachedFile(outdir, C29_BigName("model")).image
          \in C29_PreviewsOf([stem |-> "model", ext |-> ".ctb"])
    /\ CachedFile(outdir, C29_BigName("model")).image
          \notin C29_PreviewsOf([stem |-> "model", ext |-> ".goo"])

-----------------------------------------------------------------------------
\* what the step of worker w adds to the results of its scan
C30_NewResults(w) ==
    IF requests[w].kind # "scan" THEN {}
    ELSE IF requests'[w].kind = "scan" THEN requests'[w].results \ requests[w].results
    ELSE IF ret'.op = "scan_thumbnails" THEN ret'.results \ requests[w].results
    ELSE {}

\* C30: whenever a scan reports True for a file, <stem>_small.png and
\* <stem>_big.png both exist in the cache at that moment.
C30_TrueMeansBothCached ==
    [][\A w \in Workers : \A x \in C30_NewResults(w) :
          x.success =>
              /\ PngExists(outdir', x.stem, "_small.png")
              /\ PngExists(outdir', x.stem, "_big.png")]_vars

\* a scan answered with True for the printer file and for model.goo while
\* nothing else was in progress; no PNG named after the printer file exists
C30_Witness ==
    /\ ret.op = "scan_thumbnails"
    /\ \A w \in Workers : requests[w] = NoRequest
    /\ [stem |-> "remote", ext |-> ".goo", success |-> TRUE] \in ret.results
    /\ [stem |-> "model", ext |-> ".goo", success |-> TRUE] \in ret.results
    /\ ~PngExists(outdir, "remote", "_small.png")
    /\ ~PngExists(outdir, "remote", "_big.png")

=============================================================================
